---- MODULE Spec2Model ----
(***************************************************************************)
(* The vocabulary learning engine of tg-translate-ai-client:               *)
(*   - LocalDictionary (src/src/services/telegramFormatter.ts:135-410),    *)
(*     the store of learned words with their spaced-repetition state;      *)
(*   - segmentText / trySegmentFromDictionary (src/unnamed/part_007),      *)
(*     the dictionary-first segmenter with its AI fallback;                *)
(*   - FlashcardModal (src/unnamed/part_003, and its variant without the   *)
(*     shuffle, src/src/components/FlashcardModal.tsx), the review session.*)
(* A segmentText invocation is an async function: one action is one of its  *)
(* synchronous runs, from its start or from the resumption of its await to *)
(* the next await or to its return.                                        *)
(*                                                                         *)
(* Number representation.  The code works on IEEE doubles.  Here           *)
(*   - easeFactor is held in hundredths (2.5 is 250, 1.3 is 130);          *)
(*   - interval (days) is an exact fraction [n, d] in lowest terms;        *)
(*   - timestamps are counted in ticks of 960 ms, so that one day is       *)
(*     90000 ticks and every interval the scheduler can produce within     *)
(*     the bounds is a whole number of ticks.                              *)
(* Math.round is round-half-up on the exact product.                       *)
(***************************************************************************)
EXTENDS Integers, Sequences, FiniteSets, TLC

VARIABLES
  cache,          \* LocalDictionary.cache: Null, or the Map's entries in insertion order
  storage,        \* localStorage[DICTIONARY_KEY]: NoItem, or the persisted entry list
  now,            \* the clock: what Date.now() returns if read in this state
  calls,          \* the segmentText invocations: where each stands and what it holds
  last,           \* the call that produced this state: its name, arguments and return value
  held,           \* the string the caller keeps from its last export(): Null, or the entry list
  session         \* FlashcardModal: isOpen and its state wordsToReview, currentIndex, showAnswer

vars == <<cache, storage, now, calls, last, held, session>>

\* null and the absent localStorage item, as one-element lists that no entry list equals
Null   == <<[null |-> TRUE]>>
NoItem == <<[noItem |-> TRUE]>>

-----------------------------------------------------------------------------
(* Bounds of the model *)

MaxShortSteps  == 1   \* clock values: up to this many 10-minute steps ...
MaxDaySteps    == 1   \* ... on top of up to this many whole days
MaxUsage       == 3   \* addWord on an existing entry is explored while usageCount < MaxUsage
MaxReviewCount == 3   \* a grade that raises reviewCount is explored while reviewCount < MaxReviewCount

MaxUnitLen     == 3   \* the units on which dictionary-only segmentation is compared

Chars        == {"a", "b", "c"}
Words        == {<<"a">>, <<"a", "b">>}
Pinyins      == {"p1", "p2"}
Translations == {"m1", "m2", "m3"}

-----------------------------------------------------------------------------
(* Time *)

Day        == (24 * 60 * 60 * 1000) \div (96 * 10)
TenMinutes == (10 * 60 * 1000) \div (96 * 10)
StartTime  == Day

ClockValues ==
  { StartTime + i * TenMinutes + j * Day : i \in 0..MaxShortSteps, j \in 0..MaxDaySteps }

\* values a later Date.now() read can return, given that an earlier read returned t
Later(t) == { u \in ClockValues : u >= t }

-----------------------------------------------------------------------------
(* Exact fractions for entry.interval *)

RECURSIVE GCD(_, _)
GCD(a, b) == IF b = 0 THEN a ELSE GCD(b, a % b)

Frac(n, d) == LET g == GCD(n, d) IN [n |-> n \div g, d |-> d \div g]

FracMul(x, n, d) == Frac(x.n * n, x.d * d)

FracLeq(x, y) == x.n * y.d <= y.n * x.d

FracMax(x, y) == IF FracLeq(x, y) THEN y ELSE x

\* Math.round(x * n / d) for a fraction x: the nearest integer, halves upwards
MathRound(x, n, d) == Frac((2 * x.n * n + x.d * d) \div (2 * x.d * d), 1)

\* interval * 24 * 60 * 60 * 1000, in ticks
IntervalTicks(x) == (x.n * Day) \div x.d

Max(a, b) == IF a >= b THEN a ELSE b
Min(a, b) == IF a <= b THEN a ELSE b

SetMax(S) == CHOOSE x \in S : \A y \in S : y <= x

-----------------------------------------------------------------------------
(* The Map held in cache *)

Has(c, w) == \E i \in 1..Len(c) : c[i].word = w

IndexOf(c, w) == CHOOSE i \in 1..Len(c) : c[i].word = w

Get(c, w) == c[IndexOf(c, w)]

\* Map.set: an existing key keeps its position, a new key goes last
MapSet(c, e) ==
  IF Has(c, e.word) THEN [c EXCEPT ![IndexOf(c, e.word)] = e] ELSE Append(c, e)

Contains(s, x) == \E i \in 1..Len(s) : s[i] = x

-----------------------------------------------------------------------------
(* LocalDictionary: loading and saving *)

\* an entry persisted by the release that had no SRS fields yet
LegacyEntry ==
  [word |-> <<"a">>, pinyin |-> "p1", meanings |-> <<"m1">>,
   addedAt |-> TenMinutes, usageCount |-> 1]

LegacyEntry2 ==
  [word |-> <<"a", "b">>, pinyin |-> "p1", meanings |-> <<"m1">>,
   addedAt |-> 2 * TenMinutes, usageCount |-> 1]

InitialStorage == {NoItem, <<LegacyEntry>>}

Field(raw, name, default) == IF name \in DOMAIN raw THEN raw[name] ELSE default

\* initializeSRSFields: t is the value its Date.now() read returns
InitializeSRSFields(raw, t) ==
  [word         |-> raw.word,
   pinyin       |-> raw.pinyin,
   meanings     |-> raw.meanings,
   addedAt      |-> raw.addedAt,
   usageCount   |-> raw.usageCount,
   nextReview   |-> Field(raw, "nextReview", t),
   interval     |-> Field(raw, "interval", Frac(0, 1)),
   easeFactor   |-> Field(raw, "easeFactor", 250),
   reviewCount  |-> Field(raw, "reviewCount", 0),
   lastReviewed |-> Field(raw, "lastReviewed", 0)]

\* the non-decreasing sequences of k clock readings that start at t
RECURSIVE Readings(_, _)
Readings(t, k) ==
  IF k = 0 THEN {<<>>}
  ELSE { <<u>> \o r : u \in Later(t), r \in UNION { Readings(v, k - 1) : v \in Later(t) } }

Monotone(r) == \A i \in 1..Len(r) - 1 : r[i] <= r[i + 1]

RECURSIVE Migrate(_, _, _)
Migrate(raws, reads, acc) ==
  IF raws = <<>> THEN acc
  ELSE Migrate(Tail(raws), Tail(reads),
               MapSet(acc, InitializeSRSFields(Head(raws), Head(reads))))

NeedsSave(raws) == \E i \in 1..Len(raws) : "nextReview" \notin DOMAIN raws[i]

\* saveCache: JSON.stringify(Array.from(cache.values()))
SaveCache(c) == c

\* loadCache, entered with the clock at now: the cache and storage it leaves, the
\* clock value t of its last Date.now() read, and whether it read the clock at all
LoadCache ==
  IF cache # Null
  THEN {[cache |-> cache, storage |-> storage, t |-> now, read |-> FALSE]}
  ELSE LET raws == IF storage = NoItem THEN <<>> ELSE storage IN
       IF raws = <<>>
       THEN {[cache |-> <<>>, storage |-> storage, t |-> now, read |-> FALSE]}
       ELSE { [cache   |-> Migrate(raws, <<now>> \o r, <<>>),
               storage |-> IF NeedsSave(raws)
                           THEN SaveCache(Migrate(raws, <<now>> \o r, <<>>))
                           ELSE storage,
               t       |-> (<<now>> \o r)[Len(raws)],
               read    |-> TRUE]
              : r \in { x \in Readings(now, Len(raws) - 1) : Monotone(x) } }

\* loadCache entered after the handler has read the clock already (the read returned
\* now): each Date.now() of the migration may return a later value
LoadCacheAfterRead ==
  IF cache # Null
  THEN {[cache |-> cache, storage |-> storage, t |-> now, read |-> TRUE]}
  ELSE LET raws == IF storage = NoItem THEN <<>> ELSE storage IN
       IF raws = <<>>
       THEN {[cache |-> <<>>, storage |-> storage, t |-> now, read |-> TRUE]}
       ELSE { [cache   |-> Migrate(raws, r, <<>>),
               storage |-> IF NeedsSave(raws) THEN SaveCache(Migrate(raws, r, <<>>))
                           ELSE storage,
               t       |-> r[Len(raws)],
               read    |-> TRUE]
              : r \in { x \in Readings(now, Len(raws)) : Monotone(x) } }

\* what the next Date.now() read of the running handler can return
NextRead(ld) == IF ld.read THEN Later(ld.t) ELSE {ld.t}

\* persisted data that is no list of entries: text that JSON.parse rejects, and JSON
\* that is no array (null, an object, a number), on which rawEntries.forEach fails
NotJSON  == <<[malformed |-> "syntax"]>>
NotArray == <<[malformed |-> "notArray"]>>

MalformedStorage == {NotJSON, NotArray}

\* loadCache throws: JSON.parse at line 163, or forEach at line 168
Throws == cache = Null /\ storage \in MalformedStorage

StoreOps ==
  {"lookup", "addWord", "getAllWords", "getWordsForReview", "getReviewStats",
   "updateAfterReview"}

\* a store operation whose loadCache throws: nothing catches, the operation throws;
\* `this.cache = new Map()` at line 165 was reached only when JSON.parse had returned
StoreCallThrows(op) ==
  /\ Throws
  /\ cache' = IF storage = NotJSON THEN Null ELSE <<>>
  /\ last' = [op |-> op, error |-> TRUE]
  /\ UNCHANGED <<storage, now, calls, held, session>>

\* lookup: cache.get(word) || null
Lookup(w) ==
  \E ld \in LoadCache :
    /\ cache' = ld.cache
    /\ storage' = ld.storage
    /\ now' = ld.t
    /\ last' = [op |-> "lookup", word |-> w,
                ret |-> IF Has(ld.cache, w) THEN <<Get(ld.cache, w)>> ELSE Null]
    /\ UNCHANGED <<calls, held, session>>

-----------------------------------------------------------------------------
(* LocalDictionary.addWord *)

\* variant: the first review of a new entry is put one day ahead
NewEntry_ReviewTomorrow(w, p, m, t1, t2) ==
  [word |-> w, pinyin |-> p, meanings |-> <<m>>,
   addedAt |-> t1, usageCount |-> 1,
   nextReview |-> t2 + Day, interval |-> Frac(0, 1), easeFactor |-> 250,
   reviewCount |-> 0, lastReviewed |-> 0]

NewEntry(w, p, m, t1, t2) ==
  [word |-> w, pinyin |-> p, meanings |-> <<m>>,
   addedAt |-> t1, usageCount |-> 1,
   nextReview |-> t2, interval |-> Frac(0, 1), easeFactor |-> 250,
   reviewCount |-> 0, lastReviewed |-> 0]

\* variant: the meaning is pushed without the includes() test
UpdateExisting_AlwaysPush(e, p, m) ==
  [e EXCEPT !.usageCount = e.usageCount + 1,
            !.meanings   = Append(e.meanings, m),
            !.pinyin     = IF e.pinyin # p THEN p ELSE e.pinyin]

\* variant: a new encounter restarts the learning of the word
UpdateExisting_RestartsLearning(e, p, m) ==
  [e EXCEPT !.usageCount  = e.usageCount + 1,
            !.meanings    = IF Contains(e.meanings, m) THEN e.meanings
                            ELSE Append(e.meanings, m),
            !.pinyin      = IF e.pinyin # p THEN p ELSE e.pinyin,
            !.reviewCount = 0]

UpdateExisting(e, p, m) ==
  [e EXCEPT !.usageCount = e.usageCount + 1,
            !.meanings   = IF Contains(e.meanings, m) THEN e.meanings
                           ELSE Append(e.meanings, m),
            !.pinyin     = IF e.pinyin # p THEN p ELSE e.pinyin]

AddWord(w, p, m) ==
  \E ld \in LoadCache :
    /\ IF Has(ld.cache, w)
       THEN /\ Get(ld.cache, w).usageCount < MaxUsage
            /\ cache' = MapSet(ld.cache, UpdateExisting(Get(ld.cache, w), p, m))
            /\ now' = ld.t
       ELSE \E t1 \in NextRead(ld) : \E t2 \in Later(t1) :
            /\ cache' = MapSet(ld.cache, NewEntry(w, p, m, t1, t2))
            /\ now' = t2
    /\ storage' = SaveCache(cache')
    /\ last' = [op |-> "addWord", word |-> w, pinyin |-> p, translation |-> m]
    /\ UNCHANGED <<calls, held, session>>

-----------------------------------------------------------------------------
(* LocalDictionary.updateAfterReview *)

Qualities == {1, 3, 4, 5}

\* variant: Again also lowers the ease factor, as SM-2 does for a failed card
GradeAgain_LowersEase(e) ==
  [e EXCEPT !.interval = Frac(10, 24 * 60), !.reviewCount = 0,
            !.easeFactor = Max(130, e.easeFactor - 20)]

\* variant: a failed card is due again at once
GradeAgain_DueAtOnce(e) ==
  [e EXCEPT !.interval = Frac(0, 1), !.reviewCount = 0]

\* quality 1, Again: short interval, reset to learning
GradeAgain(e) ==
  [e EXCEPT !.interval = Frac(10, 24 * 60), !.reviewCount = 0]

\* variant: Hard lowers the ease factor without the Math.max(1.3, ...) floor
GradeHard_NoFloor(e) ==
  LET wasNew      == e.reviewCount = 0
      wasLearning == e.reviewCount = 1
  IN [e EXCEPT
        !.interval    = IF wasNew THEN Frac(5, 10)
                        ELSE IF wasLearning THEN Frac(1, 1)
                        ELSE FracMax(Frac(1, 1), FracMul(e.interval, 12, 10)),
        !.reviewCount = IF wasNew THEN 1
                        ELSE IF wasLearning THEN 2
                        ELSE e.reviewCount + 1,
        !.easeFactor  = e.easeFactor - 15]

\* variant: Hard without the wasLearning branch
GradeHard_NoLearningBranch(e) ==
  LET wasNew == e.reviewCount = 0
  IN [e EXCEPT
        !.interval    = IF wasNew THEN Frac(5, 10)
                        ELSE FracMax(Frac(1, 1), FracMul(e.interval, 12, 10)),
        !.reviewCount = IF wasNew THEN 1 ELSE e.reviewCount + 1,
        !.easeFactor  = Max(130, e.easeFactor - 15)]

\* quality 3, Hard: the branch is chosen by the reviewCount before the call
GradeHard(e) ==
  LET wasNew      == e.reviewCount = 0
      wasLearning == e.reviewCount = 1
  IN [e EXCEPT
        !.interval    = IF wasNew THEN Frac(5, 10)
                        ELSE IF wasLearning THEN Frac(1, 1)
                        ELSE FracMax(Frac(1, 1), FracMul(e.interval, 12, 10)),
        !.reviewCount = IF wasNew THEN 1
                        ELSE IF wasLearning THEN 2
                        ELSE e.reviewCount + 1,
        !.easeFactor  = Max(130, e.easeFactor - 15)]

\* variant: Good picks the interval from the reviewCount before the increment
GradeGood_BranchBeforeIncrement(e, q) ==
  [e EXCEPT
     !.reviewCount = e.reviewCount + 1,
     !.interval    = IF e.reviewCount = 1 THEN Frac(1, 1)
                     ELSE IF e.reviewCount = 2 THEN Frac(6, 1)
                     ELSE MathRound(e.interval, e.easeFactor, 100),
     !.easeFactor  = Max(130, e.easeFactor + (10 - (5 - q) * (8 + (5 - q) * 2)))]

\* quality 4, Good: reviewCount++ first; 0.1 - (5-q)*(0.08 + (5-q)*0.02) in hundredths
GradeGood(e, q) ==
  [e EXCEPT
     !.reviewCount = e.reviewCount + 1,
     !.interval    = IF e.reviewCount + 1 = 1 THEN Frac(1, 1)
                     ELSE IF e.reviewCount + 1 = 2 THEN Frac(6, 1)
                     ELSE MathRound(e.interval, e.easeFactor, 100),
     !.easeFactor  = Max(130, e.easeFactor + (10 - (5 - q) * (8 + (5 - q) * 2)))]

\* variant: Easy raises the ease factor without the Math.min(2.5, ...) ceiling
GradeEasy_NoCeiling(e) ==
  [e EXCEPT
     !.reviewCount = e.reviewCount + 1,
     !.interval    = IF e.reviewCount + 1 = 1 THEN Frac(4, 1)
                     ELSE IF e.reviewCount + 1 = 2 THEN Frac(10, 1)
                     ELSE MathRound(e.interval, e.easeFactor * 13, 1000),
     !.easeFactor  = e.easeFactor + 15]

\* quality 5, Easy
GradeEasy(e) ==
  [e EXCEPT
     !.reviewCount = e.reviewCount + 1,
     !.interval    = IF e.reviewCount + 1 = 1 THEN Frac(4, 1)
                     ELSE IF e.reviewCount + 1 = 2 THEN Frac(10, 1)
                     ELSE MathRound(e.interval, e.easeFactor * 13, 1000),
     !.easeFactor  = Min(250, e.easeFactor + 15)]

\* variant: the next review is counted from the date the entry was due
Schedule_FromDueDate(e, q, t) ==
  LET graded == CASE q = 1 -> GradeAgain(e)
                  [] q = 3 -> GradeHard(e)
                  [] q = 4 -> GradeGood(e, q)
                  [] q = 5 -> GradeEasy(e)
                  [] OTHER -> e
  IN [graded EXCEPT !.lastReviewed = t,
                    !.nextReview   = e.nextReview + IntervalTicks(graded.interval)]

\* the entry after a grade of quality q, t being the value of `const now = Date.now()`
Schedule(e, q, t) ==
  LET graded == CASE q = 1 -> GradeAgain(e)
                  [] q = 3 -> GradeHard(e)
                  [] q = 4 -> GradeGood(e, q)
                  [] q = 5 -> GradeEasy(e)
                  [] OTHER -> e
  IN [graded EXCEPT !.lastReviewed = t,
                    !.nextReview   = t + IntervalTicks(graded.interval)]

\* variant: without `if (!entry) return`, entry.reviewCount of undefined throws
UpdateAfterReview_NoEntryCheck(w, q) ==
  \E ld \in LoadCache :
    /\ IF ~Has(ld.cache, w)
       THEN /\ cache' = ld.cache
            /\ storage' = ld.storage
            /\ now' = ld.t
            /\ last' = [op |-> "updateAfterReview", word |-> w, quality |-> q, error |-> TRUE]
       ELSE \E t \in NextRead(ld) :
            /\ q = 1 \/ Get(ld.cache, w).reviewCount < MaxReviewCount
            /\ cache' = MapSet(ld.cache, Schedule(Get(ld.cache, w), q, t))
            /\ storage' = SaveCache(cache')
            /\ now' = t
            /\ last' = [op |-> "updateAfterReview", word |-> w, quality |-> q, error |-> FALSE]
    /\ UNCHANGED <<calls, held, session>>

UpdateAfterReview(w, q) ==
  \E ld \in LoadCache :
    /\ IF ~Has(ld.cache, w)
       THEN /\ cache' = ld.cache
            /\ storage' = ld.storage
            /\ now' = ld.t
       ELSE \E t \in NextRead(ld) :
            /\ q = 1 \/ Get(ld.cache, w).reviewCount < MaxReviewCount
            /\ cache' = MapSet(ld.cache, Schedule(Get(ld.cache, w), q, t))
            /\ storage' = SaveCache(cache')
            /\ now' = t
    /\ last' = [op |-> "updateAfterReview", word |-> w, quality |-> q, error |-> FALSE]
    /\ UNCHANGED <<calls, held, session>>

-----------------------------------------------------------------------------
(* LocalDictionary.getWordsForReview *)

\* Array.prototype.sort with (a, b) => a.nextReview - b.nextReview: a stable sort
RECURSIVE InsertSorted(_, _)
InsertSorted(s, e) ==
  IF s = <<>> THEN <<e>>
  ELSE IF s[Len(s)].nextReview - e.nextReview > 0
       THEN Append(InsertSorted(SubSeq(s, 1, Len(s) - 1), e), s[Len(s)])
       ELSE Append(s, e)

RECURSIVE SortByNextReview(_)
SortByNextReview(s) ==
  IF s = <<>> THEN <<>>
  ELSE InsertSorted(SortByNextReview(SubSeq(s, 1, Len(s) - 1)), s[Len(s)])

IsDue(e, t) == e.nextReview <= t

\* variant: the due entries are returned in Map order, without the sort
GetWordsForReviewAt_Unsorted(c, t) ==
  LET Due(e) == IsDue(e, t) IN SelectSeq(c, Due)

GetWordsForReviewAt(c, t) ==
  LET Due(e) == IsDue(e, t) IN SortByNextReview(SelectSeq(c, Due))

\* `const now = Date.now()` is read before getAllWords() loads the cache
GetWordsForReview ==
  \E ld \in LoadCacheAfterRead :
    /\ cache' = ld.cache
    /\ storage' = ld.storage
    /\ now' = ld.t
    /\ last' = [op |-> "getWordsForReview", at |-> now,
                ret |-> GetWordsForReviewAt(ld.cache, now)]
    /\ UNCHANGED <<calls, held, session>>

-----------------------------------------------------------------------------
(* aiSegmentation: splitIntoSentences and trySegmentFromDictionary *)

Procs == {1, 2}

Sep   == ";"
Space == " "

\* the texts handed to segmentText
Texts ==
  { <<"a", "b", "c", "c">>, <<"a", "b">>, <<"a">>, <<"a", "a", "b">>,
    <<"a", "b", ";", "c", "c">>, <<"a", "b", ";", "a", "b">>,
    <<"c", "c", ";", " ", "a", "b", " ">>, <<";", " ", ";">> }

\* String.prototype.trim
RECURSIVE Trim(_)
Trim(t) ==
  IF t = <<>> THEN t
  ELSE IF Head(t) = Space THEN Trim(Tail(t))
  ELSE IF t[Len(t)] = Space THEN Trim(SubSeq(t, 1, Len(t) - 1))
  ELSE t

\* text.split(/[...]+/): the pieces between the separators; cur is the piece being read
RECURSIVE SplitOn(_, _, _)
SplitOn(t, cur, acc) ==
  IF t = <<>> THEN Append(acc, cur)
  ELSE IF Head(t) = Sep THEN SplitOn(Tail(t), <<>>, Append(acc, cur))
  ELSE SplitOn(Tail(t), Append(cur, Head(t)), acc)

RECURSIVE TrimAll(_)
TrimAll(ss) == IF ss = <<>> THEN <<>> ELSE <<Trim(Head(ss))>> \o TrimAll(Tail(ss))

SplitIntoSentences(text) ==
  LET NonBlank(x) == Len(Trim(x)) > 0
  IN TrimAll(SelectSeq(SplitOn(text, <<>>, <<>>), NonBlank))

MaxWordLen == 4

\* the lengths, at most 4 and at most the rest of the text, matched at position i
MatchLengths(text, i, c) ==
  { len \in 1..Min(MaxWordLen, Len(text) - i + 1) : Has(c, SubSeq(text, i, i + len - 1)) }

SegmentOf(entry) ==
  [word |-> entry.word, pinyin |-> entry.pinyin, translation |-> entry.meanings[1]]

\* the while loop of trySegmentFromDictionary from position i (1-based) on
RECURSIVE ScanLoop(_, _, _, _)
ScanLoop(text, i, segments, c) ==
  IF i > Len(text) THEN [ok |-> TRUE, segments |-> segments]
  ELSE LET lens == MatchLengths(text, i, c) IN
       IF lens = {}
       THEN [ok |-> FALSE, segments |-> <<>>]
       ELSE LET len == SetMax(lens) IN
            ScanLoop(text, i + len,
                     Append(segments, SegmentOf(Get(c, SubSeq(text, i, i + len - 1)))), c)

\* variant: the matches found before the unknown position are returned
RECURSIVE ScanLoop_Partial(_, _, _, _)
ScanLoop_Partial(text, i, segments, c) ==
  IF i > Len(text) THEN [ok |-> TRUE, segments |-> segments]
  ELSE LET lens == MatchLengths(text, i, c) IN
       IF lens = {}
       THEN [ok |-> TRUE, segments |-> segments]
       ELSE LET len == SetMax(lens) IN
            ScanLoop_Partial(text, i + len,
                     Append(segments, SegmentOf(Get(c, SubSeq(text, i, i + len - 1)))), c)

TrySegmentFromDictionary_Partial(text, c) == ScanLoop_Partial(text, 1, <<>>, c)

SetMin(S) == CHOOSE x \in S : \A y \in S : x <= y

\* variant: the inner loop tries the lengths upwards, so the shortest match wins
RECURSIVE ScanLoop_Shortest(_, _, _, _)
ScanLoop_Shortest(text, i, segments, c) ==
  IF i > Len(text) THEN [ok |-> TRUE, segments |-> segments]
  ELSE LET lens == MatchLengths(text, i, c) IN
       IF lens = {}
       THEN [ok |-> FALSE, segments |-> <<>>]
       ELSE LET len == SetMin(lens) IN
            ScanLoop_Shortest(text, i + len,
                     Append(segments, SegmentOf(Get(c, SubSeq(text, i, i + len - 1)))), c)

TrySegmentFromDictionary_Shortest(text, c) == ScanLoop_Shortest(text, 1, <<>>, c)

\* trySegmentFromDictionary: ok FALSE stands for the null it returns
TrySegmentFromDictionary(text, c) == ScanLoop(text, 1, <<>>, c)

\* variant: every word the scan emits is counted as one more encounter
TrySegmentFromDictionaryCall_CountsUsage(text) ==
  \E ld \in LoadCache :
    LET ret == TrySegmentFromDictionary(text, ld.cache)
        Emitted(w) == \E k \in 1..Len(ret.segments) : ret.segments[k].word = w
    IN /\ cache' = [i \in 1..Len(ld.cache) |->
                      IF Emitted(ld.cache[i].word)
                      THEN [ld.cache[i] EXCEPT !.usageCount = ld.cache[i].usageCount + 1]
                      ELSE ld.cache[i]]
       /\ storage' = IF ret.segments = <<>> THEN ld.storage ELSE SaveCache(cache')
       /\ now' = ld.t
       /\ last' = [op |-> "trySegmentFromDictionary", text |-> text, ret |-> ret]
       /\ UNCHANGED <<calls, held, session>>

\* one call of trySegmentFromDictionary on a unit (units are never empty): its first
\* lookup loads the cache
TrySegmentFromDictionaryCall(text) ==
  \E ld \in LoadCache :
    /\ cache' = ld.cache
    /\ storage' = ld.storage
    /\ now' = ld.t
    /\ last' = [op |-> "trySegmentFromDictionary", text |-> text,
                ret |-> TrySegmentFromDictionary(text, ld.cache)]
    /\ UNCHANGED <<calls, held, session>>

-----------------------------------------------------------------------------
(* aiSegmentation: segmentSentenceWithAI and segmentText *)

\* pinyin(word, { toneType: 'symbol' }) of pinyin-pro
GeneratedPinyin(word) == "generated"

\* the segments the model may put into its JSON answer; pinyin "" is a missing pinyin
AISegments ==
  { [word |-> <<"a">>,      pinyin |-> "",   translation |-> "m1"],
    [word |-> <<"a", "b">>, pinyin |-> "p1", translation |-> "m1"],
    [word |-> <<"a", "b">>, pinyin |-> "p2", translation |-> "m2"],
    [word |-> <<"c", "c">>, pinyin |-> "p2", translation |-> "m2"] }

AIAnswers ==
  {<<>>} \cup { <<x>> : x \in AISegments } \cup { <<x, y>> : x \in AISegments, y \in AISegments }

\* parsed.segments.map(...) of segmentSentenceWithAI
RECURSIVE EnsurePinyin(_)
EnsurePinyin(segs) ==
  IF segs = <<>> THEN <<>>
  ELSE LET seg == Head(segs) IN
       << [word |-> seg.word,
           pinyin |-> IF seg.pinyin = "" THEN GeneratedPinyin(seg.word) ELSE seg.pinyin,
           translation |-> seg.translation] >> \o EnsurePinyin(Tail(segs))

Idle == [pc |-> "idle", units |-> <<>>, idx |-> 0, req |-> <<>>, out |-> <<>>]

\* allSegments: out holds the segments pushed for each unit, unit by unit
RECURSIVE Flatten(_)
Flatten(out) == IF out = <<>> THEN <<>> ELSE Head(out) \o Flatten(Tail(out))

\* variant: `knownWords.length > 1`, a unit that is one known word goes to the AI
RECURSIVE RunLoop_NeedsTwoWords(_, _, _, _)
RunLoop_NeedsTwoWords(units, idx, out, c) ==
  IF idx > Len(units)
  THEN [pc |-> "done", units |-> units, idx |-> idx, req |-> <<>>, out |-> out]
  ELSE LET knownWords == TrySegmentFromDictionary(units[idx], c) IN
       IF knownWords.ok /\ Len(knownWords.segments) > 1
       THEN RunLoop_NeedsTwoWords(units, idx + 1, Append(out, knownWords.segments), c)
       ELSE [pc |-> "awaitAI", units |-> units, idx |-> idx, req |-> units[idx], out |-> out]

\* the for loop of segmentText from unit idx on, up to its next await or its end
RECURSIVE RunLoop(_, _, _, _)
RunLoop(units, idx, out, c) ==
  IF idx > Len(units)
  THEN [pc |-> "done", units |-> units, idx |-> idx, req |-> <<>>, out |-> out]
  ELSE LET knownWords == TrySegmentFromDictionary(units[idx], c) IN
       IF knownWords.ok /\ Len(knownWords.segments) > 0
       THEN RunLoop(units, idx + 1, Append(out, knownWords.segments), c)
       ELSE [pc |-> "awaitAI", units |-> units, idx |-> idx, req |-> units[idx], out |-> out]

\* aiSegments.forEach(seg => localDictionary.addWord(...)): the caches it can leave
\* and the clock value last read, t being the last value read before (read) or the
\* clock on entry
RECURSIVE AddSegments(_, _, _, _)
AddSegments(c, segs, t, read) ==
  IF segs = <<>> THEN {[cache |-> c, t |-> t]}
  ELSE LET seg == Head(segs) IN
       IF Has(c, seg.word)
       THEN AddSegments(MapSet(c, UpdateExisting(Get(c, seg.word), seg.pinyin, seg.translation)),
                        Tail(segs), t, read)
       ELSE UNION { UNION { AddSegments(MapSet(c, NewEntry(seg.word, seg.pinyin,
                                                          seg.translation, t1, t2)),
                                        Tail(segs), t2, TRUE)
                            : t2 \in Later(t1) }
                    : t1 \in (IF read THEN Later(t) ELSE {t}) }

WithinUsage(c) == \A i \in 1..Len(c) : c[i].usageCount <= MaxUsage

\* segmentText is called: it runs up to its first await, or to its end
SegmentTextStart(p, text) ==
  /\ calls[p].pc \in {"idle", "done"}
  /\ LET units == SplitIntoSentences(text) IN
       \E ld \in LoadCache :
         /\ cache' = IF units = <<>> THEN cache ELSE ld.cache
         /\ storage' = IF units = <<>> THEN storage ELSE ld.storage
         /\ now' = IF units = <<>> THEN now ELSE ld.t
         /\ calls' = [calls EXCEPT ![p] = RunLoop(units, 1, <<>>, ld.cache)]
  /\ last' = [op |-> "segmentText", proc |-> p, text |-> text]
  /\ UNCHANGED <<held, session>>

\* variant: the later units are segmented against the store as it was before the
\* segments of this unit were added
AIResolves_StaleStore(p, answer) ==
  /\ calls[p].pc = "awaitAI"
  /\ LET aiSegments == EnsurePinyin(answer) IN
       \E ld \in LoadCache : \E r \in AddSegments(ld.cache, aiSegments, ld.t, ld.read) :
         /\ WithinUsage(r.cache)
         /\ cache' = IF aiSegments = <<>> THEN cache ELSE r.cache
         /\ storage' = IF aiSegments = <<>> THEN storage ELSE SaveCache(r.cache)
         /\ now' = IF aiSegments = <<>> THEN now ELSE r.t
         /\ calls' = [calls EXCEPT ![p] =
                        RunLoop(calls[p].units, calls[p].idx + 1,
                                Append(calls[p].out, aiSegments), ld.cache)]
  /\ last' = [op |-> "aiResolves", proc |-> p, answer |-> answer]
  /\ UNCHANGED <<held, session>>

\* variant: each segment is written as a new entry, replacing what the store
\* holds for its word
AIResolves_Overwrites(p, answer) ==
  /\ calls[p].pc = "awaitAI"
  /\ LET aiSegments == EnsurePinyin(answer)
         Kept(e) == \A k \in 1..Len(aiSegments) : aiSegments[k].word # e.word
     IN
       \E ld \in LoadCache :
       \E r \in AddSegments(SelectSeq(ld.cache, Kept), aiSegments, ld.t, ld.read) :
         /\ WithinUsage(r.cache)
         /\ cache' = IF aiSegments = <<>> THEN cache ELSE r.cache
         /\ storage' = IF aiSegments = <<>> THEN storage ELSE SaveCache(r.cache)
         /\ now' = IF aiSegments = <<>> THEN now ELSE r.t
         /\ calls' = [calls EXCEPT ![p] =
                        RunLoop(calls[p].units, calls[p].idx + 1,
                                Append(calls[p].out, aiSegments),
                                IF aiSegments = <<>> THEN cache ELSE r.cache)]
  /\ last' = [op |-> "aiResolves", proc |-> p, answer |-> answer]
  /\ UNCHANGED <<held, session>>

\* the await of segmentSentenceWithAI resolves: the segments go to the store and
\* to the output, and the loop runs on
AIResolves(p, answer) ==
  /\ calls[p].pc = "awaitAI"
  /\ LET aiSegments == EnsurePinyin(answer) IN
       \E ld \in LoadCache : \E r \in AddSegments(ld.cache, aiSegments, ld.t, ld.read) :
         /\ WithinUsage(r.cache)
         /\ cache' = IF aiSegments = <<>> THEN cache ELSE r.cache
         /\ storage' = IF aiSegments = <<>> THEN storage ELSE SaveCache(r.cache)
         /\ now' = IF aiSegments = <<>> THEN now ELSE r.t
         /\ calls' = [calls EXCEPT ![p] =
                        RunLoop(calls[p].units, calls[p].idx + 1,
                                Append(calls[p].out, aiSegments),
                                IF aiSegments = <<>> THEN cache ELSE r.cache)]
  /\ last' = [op |-> "aiResolves", proc |-> p, answer |-> answer]
  /\ UNCHANGED <<held, session>>

\* variant: without the inner try/catch the rejection ends the call
AIRejects_Rethrows(p) ==
  /\ calls[p].pc = "awaitAI"
  /\ calls' = [calls EXCEPT ![p] = [calls[p] EXCEPT !.pc = "rejected"]]
  /\ last' = [op |-> "aiRejects", proc |-> p]
  /\ UNCHANGED <<cache, storage, now, held, session>>

\* the await rejects (no API key, transport error, no JSON in the answer): the
\* catch pushes the fallback segment, and the loop runs on
AIRejects(p) ==
  /\ calls[p].pc = "awaitAI"
  /\ calls' = [calls EXCEPT ![p] =
                 RunLoop(calls[p].units, calls[p].idx + 1,
                         Append(calls[p].out,
                                << [word |-> calls[p].req,
                                    pinyin |-> GeneratedPinyin(calls[p].req),
                                    translation |-> "[Translation failed]"] >>),
                         cache)]
  /\ last' = [op |-> "aiRejects", proc |-> p]
  /\ UNCHANGED <<cache, storage, now, held, session>>

-----------------------------------------------------------------------------
(* LocalDictionary: clear, export and import *)

\* variant: the cache is emptied and the persisted list stays
Clear_CacheOnly ==
  /\ cache' = <<>>
  /\ storage' = storage
  /\ last' = [op |-> "clear"]
  /\ UNCHANGED <<now, calls, held, session>>

\* clear: this.cache = new Map(); localStorage.removeItem(DICTIONARY_KEY)
Clear ==
  /\ cache' = <<>>
  /\ storage' = NoItem
  /\ last' = [op |-> "clear"]
  /\ UNCHANGED <<now, calls, held, session>>

\* export: localStorage.getItem(DICTIONARY_KEY) || '[]'; the cache is not consulted
ExportOf(st) == IF st = NoItem THEN <<>> ELSE st

Export ==
  /\ held' = ExportOf(storage)
  /\ last' = [op |-> "export", ret |-> ExportOf(storage)]
  /\ UNCHANGED <<cache, storage, now, calls, session>>

\* variant: only the first meaning of each entry is imported
RECURSIVE ImportTriples_FirstMeaningOnly(_)
ImportTriples_FirstMeaningOnly(entries) ==
  IF entries = <<>> THEN <<>>
  ELSE LET entry == Head(entries) IN
       << [word |-> entry.word, pinyin |-> entry.pinyin, translation |-> entry.meanings[1]] >>
       \o ImportTriples_FirstMeaningOnly(Tail(entries))

\* the addWord calls of import, in their order: for each entry its first meaning,
\* then each meaning of meanings.slice(1)
RECURSIVE ImportTriples(_)
ImportTriples(entries) ==
  IF entries = <<>> THEN <<>>
  ELSE LET entry == Head(entries) IN
       [ i \in 1..Len(entry.meanings) |->
           [word |-> entry.word, pinyin |-> entry.pinyin, translation |-> entry.meanings[i]] ]
       \o ImportTriples(Tail(entries))

\* import(jsonData), jsonData being the string the caller holds from export()
Import ==
  /\ held # Null
  /\ LET triples == ImportTriples(held) IN
       IF triples = <<>>
       THEN UNCHANGED <<cache, storage, now>>
       ELSE \E ld \in LoadCache : \E r \in AddSegments(ld.cache, triples, ld.t, ld.read) :
              /\ WithinUsage(r.cache)
              /\ cache' = r.cache
              /\ storage' = SaveCache(r.cache)
              /\ now' = r.t
  /\ last' = [op |-> "import", error |-> FALSE]
  /\ UNCHANGED <<calls, held, session>>

-----------------------------------------------------------------------------
(* The clock moves between two calls *)

Advance ==
  /\ \E t \in ClockValues : t > now /\ now' = t
  /\ last' = [op |-> "advance"]
  /\ UNCHANGED <<cache, storage, calls, held, session>>

-----------------------------------------------------------------------------
(* FlashcardModal: the review session *)

Range(s) == { s[i] : i \in 1..Len(s) }

\* [...words].sort(() => Math.random() - 0.5): some order of the same elements
Shuffled(s) == { p \in [1..Len(s) -> Range(s)] : Range(p) = Range(s) }

\* wordsToReview holds the entry objects of the cache; they are kept here by their word
WordsOf(entries) == [i \in 1..Len(entries) |-> entries[i].word]

\* localDictionary.updateAfterReview(w, q) as called by the modal: the cache and
\* storage it leaves and the clock value it read last
ReviewResults(w, q) ==
  UNION { IF ~Has(ld.cache, w)
          THEN {[cache |-> ld.cache, storage |-> ld.storage, t |-> ld.t]}
          ELSE { [cache   |-> MapSet(ld.cache, Schedule(Get(ld.cache, w), q, t)),
                  storage |-> SaveCache(MapSet(ld.cache, Schedule(Get(ld.cache, w), q, t))),
                  t       |-> t]
                 : t \in { u \in NextRead(ld) :
                             q = 1 \/ Get(ld.cache, w).reviewCount < MaxReviewCount } }
          : ld \in LoadCache }

\* isOpen becomes true: the effect runs loadReviewSession, that is getWordsForReview
\* (clock read, then load), the shuffle, and getReviewStats (two more clock reads)
OpenSession ==
  /\ ~session.isOpen
  /\ \E ld \in LoadCacheAfterRead :
       \E words \in Shuffled(WordsOf(GetWordsForReviewAt(ld.cache, now))) :
       \E t2 \in Later(ld.t) :
         /\ cache' = ld.cache
         /\ storage' = ld.storage
         /\ now' = t2
         /\ session' = [isOpen |-> TRUE, wordsToReview |-> words, currentIndex |-> 0,
                         showAnswer |-> FALSE]
         /\ last' = [op |-> "openSession", at |-> now]
  /\ UNCHANGED <<calls, held>>

\* onClose: the modal renders nothing, its state stays
CloseSession ==
  /\ session.isOpen
  /\ session' = [session EXCEPT !.isOpen = FALSE]
  /\ last' = [op |-> "closeSession"]
  /\ UNCHANGED <<cache, storage, now, calls, held>>

\* the "Show Answer" button, rendered while a card is shown with its answer hidden
ToggleAnswer ==
  /\ session.isOpen
  /\ Len(session.wordsToReview) > 0
  /\ ~session.showAnswer
  /\ session' = [session EXCEPT !.showAnswer = ~session.showAnswer]
  /\ last' = [op |-> "toggleAnswer"]
  /\ UNCHANGED <<cache, storage, now, calls, held>>

\* variant: the session is reloaded after every grade
HandleQualityResponse_AlwaysReloads(quality) ==
  /\ session.isOpen
  /\ Len(session.wordsToReview) > 0
  /\ session.showAnswer
  /\ session.currentIndex < Len(session.wordsToReview)
  /\ LET currentWord == session.wordsToReview[session.currentIndex + 1] IN
       \E r \in ReviewResults(currentWord, quality) :
         /\ cache' = r.cache
         /\ storage' = r.storage
         /\ \E t0 \in Later(r.t) :
            \E words \in Shuffled(WordsOf(GetWordsForReviewAt(r.cache, t0))) :
            \E t2 \in Later(t0) :
              /\ now' = t2
              /\ session' = [isOpen |-> TRUE, wordsToReview |-> words,
                              currentIndex |-> 0, showAnswer |-> FALSE]
              /\ last' = [op |-> "handleQualityResponse", quality |-> quality,
                          word |-> currentWord, index |-> session.currentIndex,
                          refetched |-> TRUE, at |-> t0]
  /\ UNCHANGED <<calls, held>>

\* one of the four grade buttons, rendered while a card is shown with its answer
\* revealed: updateAfterReview for the current card, then the next card or, after
\* the last one, loadReviewSession
HandleQualityResponse(quality) ==
  /\ session.isOpen
  /\ Len(session.wordsToReview) > 0
  /\ session.showAnswer
  /\ IF session.currentIndex >= Len(session.wordsToReview)
     THEN /\ last' = [op |-> "handleQualityResponse", quality |-> quality,
                      word |-> <<>>, index |-> session.currentIndex,
                      refetched |-> FALSE, at |-> 0]
          /\ UNCHANGED <<cache, storage, now, session>>
     ELSE LET currentWord == session.wordsToReview[session.currentIndex + 1] IN
          \E r \in ReviewResults(currentWord, quality) :
            /\ cache' = r.cache
            /\ storage' = r.storage
            /\ IF session.currentIndex < Len(session.wordsToReview) - 1
               THEN /\ now' = r.t
                    /\ session' = [session EXCEPT !.currentIndex = session.currentIndex + 1,
                                                  !.showAnswer = FALSE]
                    /\ last' = [op |-> "handleQualityResponse", quality |-> quality,
                                word |-> currentWord, index |-> session.currentIndex,
                                refetched |-> FALSE, at |-> 0]
               ELSE \E t0 \in Later(r.t) :
                    \E words \in Shuffled(WordsOf(GetWordsForReviewAt(r.cache, t0))) :
                    \E t2 \in Later(t0) :
                      /\ now' = t2
                      /\ session' = [isOpen |-> TRUE, wordsToReview |-> words,
                                      currentIndex |-> 0, showAnswer |-> FALSE]
                      /\ last' = [op |-> "handleQualityResponse", quality |-> quality,
                                  word |-> currentWord, index |-> session.currentIndex,
                                  refetched |-> TRUE, at |-> t0]
  /\ UNCHANGED <<calls, held>>

\* handleQualityResponse as a function of the open modal, whatever is rendered: it
\* reads wordsToReview[currentIndex], returns if there is none, and otherwise
\* grades; showAnswer is not read
Grade(quality) ==
  /\ session.isOpen
  /\ IF session.currentIndex >= Len(session.wordsToReview)
     THEN /\ last' = [op |-> "handleQualityResponse", quality |-> quality,
                      word |-> <<>>, index |-> session.currentIndex,
                      refetched |-> FALSE, at |-> 0]
          /\ UNCHANGED <<cache, storage, now, session>>
     ELSE LET currentWord == session.wordsToReview[session.currentIndex + 1] IN
          \E r \in ReviewResults(currentWord, quality) :
            /\ cache' = r.cache
            /\ storage' = r.storage
            /\ IF session.currentIndex < Len(session.wordsToReview) - 1
               THEN /\ now' = r.t
                    /\ session' = [session EXCEPT !.currentIndex = session.currentIndex + 1,
                                                  !.showAnswer = FALSE]
                    /\ last' = [op |-> "handleQualityResponse", quality |-> quality,
                                word |-> currentWord, index |-> session.currentIndex,
                                refetched |-> FALSE, at |-> 0]
               ELSE \E t0 \in Later(r.t) :
                    \E words \in Shuffled(WordsOf(GetWordsForReviewAt(r.cache, t0))) :
                    \E t2 \in Later(t0) :
                      /\ now' = t2
                      /\ session' = [isOpen |-> TRUE, wordsToReview |-> words,
                                      currentIndex |-> 0, showAnswer |-> FALSE]
                      /\ last' = [op |-> "handleQualityResponse", quality |-> quality,
                                  word |-> currentWord, index |-> session.currentIndex,
                                  refetched |-> TRUE, at |-> t0]
  /\ UNCHANGED <<calls, held>>

\* the page is loaded anew: the module creates a new LocalDictionary (cache null),
\* running segmentText calls and the modal's state are gone, localStorage stays
Restart ==
  /\ cache' = Null
  /\ calls' = [p \in Procs |-> Idle]
  /\ session' = [isOpen |-> FALSE, wordsToReview |-> <<>>, currentIndex |-> 0,
                  showAnswer |-> FALSE]
  /\ last' = [op |-> "restart"]
  /\ UNCHANGED <<storage, now, held>>

-----------------------------------------------------------------------------
\* the modal before it is opened: useState([]), useState(0), useState(false)
Closed == [isOpen |-> FALSE, wordsToReview |-> <<>>, currentIndex |-> 0, showAnswer |-> FALSE]

Init ==
  /\ cache = Null
  /\ storage \in InitialStorage
  /\ now = StartTime
  /\ calls = [p \in Procs |-> Idle]
  /\ last = [op |-> "init"]
  /\ held = Null
  /\ session = Closed

\* the dictionary: every pinyin and translation for one word, a second word beside
\* it, and GOOD grades in between so that SRS fields leave their defaults; the clock
\* starts one value before its last, so that it can still move once
InitDict ==
  /\ cache = Null
  /\ storage \in InitialStorage
  /\ now = SetMax(ClockValues \ {SetMax(ClockValues)})
  /\ calls = [p \in Procs |-> Idle]
  /\ last = [op |-> "init"]
  /\ held = Null
  /\ session = Closed

NextDict ==
  \/ \E p \in Pinyins, m \in Translations : AddWord(<<"a">>, p, m)
  \/ AddWord(<<"a", "b">>, "p1", "m1")
  \/ UpdateAfterReview(<<"a">>, 4)
  \/ Advance

SpecDict == InitDict /\ [][NextDict]_vars

\* the scheduler: one learned word graded with every quality, any number of times
NextSched ==
  \/ AddWord(<<"a">>, "p1", "m1")
  \/ \E w \in Words, q \in Qualities : UpdateAfterReview(w, q)
  \/ Advance

SpecSched == Init /\ [][NextSched]_vars

\* the grades alone: one word, added or persisted earlier, graded with every
\* quality any number of times as the clock moves
NextGrades ==
  \/ AddWord(<<"a">>, "p1", "m1")
  \/ \E q \in Qualities : UpdateAfterReview(<<"a">>, q)
  \/ Advance

SpecGrades == Init /\ [][NextGrades]_vars

\* the review queue: two words persisted earlier, in either order, graded AGAIN or
\* GOOD and fetched at any time
InitDue ==
  /\ cache = Null
  /\ storage \in {<<LegacyEntry, LegacyEntry2>>, <<LegacyEntry2, LegacyEntry>>}
  /\ now = StartTime
  /\ calls = [p \in Procs |-> Idle]
  /\ last = [op |-> "init"]
  /\ held = Null
  /\ session = Closed

NextDue ==
  \/ \E w \in Words, q \in {1, 4} : UpdateAfterReview(w, q)
  \/ GetWordsForReview
  \/ Advance

SpecDue == InitDue /\ [][NextDue]_vars

\* the segmenter: one segmentText invocation at a time, the clock standing at its
\* last value so that entries differ by what was learned and not by when
InitSeg ==
  /\ cache = Null
  /\ storage \in InitialStorage
  /\ now = SetMax(ClockValues)
  /\ calls = [p \in Procs |-> Idle]
  /\ last = [op |-> "init"]
  /\ held = Null
  /\ session = Closed

NextSeg ==
  \/ \E text \in Texts : SegmentTextStart(1, text)
  \/ \E answer \in AIAnswers : AIResolves(1, answer)
  \/ AIRejects(1)

SpecSeg == InitSeg /\ [][NextSeg]_vars

\* two messages segmented at once (handleAugmentationClick guards each message
\* alone), their AI calls resolving in any order, and cards graded in between
TwoTexts == { <<"a", "b">>, <<"a", "b", ";", "c", "c">> }

TwoAnswers ==
  { <<[word |-> <<"a", "b">>, pinyin |-> "p1", translation |-> "m1"]>>,
    <<[word |-> <<"a", "b">>, pinyin |-> "p2", translation |-> "m2"],
      [word |-> <<"c", "c">>, pinyin |-> "p2", translation |-> "m2"]>> }

NextTwo ==
  \/ \E p \in Procs, text \in TwoTexts : SegmentTextStart(p, text)
  \/ \E p \in Procs, answer \in TwoAnswers : AIResolves(p, answer)
  \/ \E p \in Procs : AIRejects(p)
  \/ \E q \in {1, 4} : UpdateAfterReview(<<"a", "b">>, q)

SpecTwo == InitSeg /\ [][NextTwo]_vars

\* export, clear and import around a store built by addWord (one word met with two
\* pinyin and meanings, a second word beside it) and graded AGAIN, the clock standing
\* at its last value
InitRound ==
  /\ cache = Null
  /\ storage \in InitialStorage
  /\ now = SetMax(ClockValues)
  /\ calls = [p \in Procs |-> Idle]
  /\ last = [op |-> "init"]
  /\ held = Null
  /\ session = Closed

NextRound ==
  \/ AddWord(<<"a">>, "p1", "m1")
  \/ AddWord(<<"a">>, "p2", "m2")
  \/ AddWord(<<"a", "b">>, "p1", "m1")
  \/ UpdateAfterReview(<<"a">>, 1)
  \/ Export
  \/ Clear
  \/ Import

SpecRound == InitRound /\ [][NextRound]_vars

\* the review session: two words persisted earlier, the modal opened and closed, the
\* cards revealed and graded AGAIN or GOOD, the clock moving in between
InitSession ==
  /\ cache = Null
  /\ storage = <<LegacyEntry, LegacyEntry2>>
  /\ now = StartTime
  /\ calls = [p \in Procs |-> Idle]
  /\ last = [op |-> "init"]
  /\ held = Null
  /\ session = Closed

NextSession ==
  \/ OpenSession
  \/ CloseSession
  \/ ToggleAnswer
  \/ \E q \in {1, 4} : HandleQualityResponse(q)
  \/ Advance

SpecSession == InitSession /\ [][NextSession]_vars

\* the grade operation called on the open modal in any of its states, beside the
\* buttons that open, close and reveal
NextGrade ==
  \/ OpenSession
  \/ CloseSession
  \/ ToggleAnswer
  \/ \E q \in {1, 4} : Grade(q)
  \/ Advance

SpecGrade == InitSession /\ [][NextGrade]_vars

\* loading: what an earlier release or another writer left in localStorage, read
\* by the first store operation after each page load
PartialEntry ==
  [word |-> <<"a", "b">>, pinyin |-> "p1", meanings |-> <<"m1">>,
   addedAt |-> 2 * TenMinutes, usageCount |-> 1, nextReview |-> 3 * TenMinutes]

ReviewedEntry ==
  [word |-> <<"a", "b">>, pinyin |-> "p2", meanings |-> <<"m2", "m1">>,
   addedAt |-> 2 * TenMinutes, usageCount |-> 2, nextReview |-> 3 * TenMinutes + 6 * Day,
   interval |-> Frac(6, 1), easeFactor |-> 235, reviewCount |-> 2,
   lastReviewed |-> 3 * TenMinutes]

LoadStorages ==
  { NoItem, <<LegacyEntry>>, <<LegacyEntry, LegacyEntry2>>, <<LegacyEntry, ReviewedEntry>>,
    <<PartialEntry>>, NotJSON, NotArray }

InitLoad ==
  /\ cache = Null
  /\ storage \in LoadStorages
  /\ now = StartTime
  /\ calls = [p \in Procs |-> Idle]
  /\ last = [op |-> "init"]
  /\ held = Null
  /\ session = Closed

NextLoad ==
  \/ \E op \in StoreOps : StoreCallThrows(op)
  \/ ~Throws /\ \E w \in Words : Lookup(w)
  \/ ~Throws /\ GetWordsForReview
  \/ ~Throws /\ \E w \in Words : UpdateAfterReview(w, 4)
  \/ ~Throws /\ AddWord(<<"a">>, "p1", "m2")
  \/ Restart
  \/ Advance

SpecLoad == InitLoad /\ [][NextLoad]_vars

\* the scan alone: a store persisted earlier with any subset of six words, of one to
\* five characters, and trySegmentFromDictionary applied to every short unit and to
\* three longer ones; no entry lacks a field, so the clock plays no part
StoredEntry(w, p, ms) ==
  [word |-> w, pinyin |-> p, meanings |-> ms, addedAt |-> TenMinutes, usageCount |-> 1,
   nextReview |-> TenMinutes, interval |-> Frac(0, 1), easeFactor |-> 250,
   reviewCount |-> 0, lastReviewed |-> 0]

ScanEntries ==
  << StoredEntry(<<"a">>, "p1", <<"m1", "m2">>),
     StoredEntry(<<"c">>, "p2", <<"m2">>),
     StoredEntry(<<"a", "b">>, "p2", <<"m3", "m1">>),
     StoredEntry(<<"b", "c">>, "p1", <<"m2", "m3">>),
     StoredEntry(<<"a", "b", "c", "c">>, "p1", <<"m3">>),
     StoredEntry(<<"a", "a", "a", "a", "a">>, "p2", <<"m1">>) >>

\* the entries of s whose index is in I, in the order of s
RECURSIVE Pick(_, _, _)
Pick(s, I, k) ==
  IF k > Len(s) THEN <<>>
  ELSE (IF k \in I THEN <<s[k]>> ELSE <<>>) \o Pick(s, I, k + 1)

ScanStores == { Pick(ScanEntries, I, 1) : I \in SUBSET (1..Len(ScanEntries)) }

RECURSIVE SeqsUpTo(_)
SeqsUpTo(n) ==
  IF n = 0 THEN {<<>>}
  ELSE LET S == SeqsUpTo(n - 1) IN S \cup { Append(u, ch) : u \in S, ch \in Chars }

\* the units of at most MaxUnitLen characters
AllUnits == SeqsUpTo(MaxUnitLen) \ {<<>>}

ScanTexts ==
  AllUnits \cup { <<"a", "b", "c", "c">>, <<"a", "b", "c", "c", "a">>,
                  <<"a", "a", "a", "a", "a">> }

InitScan ==
  /\ cache = Null
  /\ storage \in { IF st = <<>> THEN NoItem ELSE st : st \in ScanStores }
  /\ now = SetMax(ClockValues)
  /\ calls = [p \in Procs |-> Idle]
  /\ last = [op |-> "init"]
  /\ held = Null
  /\ session = Closed

NextScan == \E text \in ScanTexts : TrySegmentFromDictionaryCall(text)

SpecScan == InitScan /\ [][NextScan]_vars

\* the whole store: every operation that touches it, with few inputs each, around
\* a page reload and clear(); one word was persisted earlier, the text handed to
\* import is a backup with another word, and the clock stands at its last value
InitStore ==
  /\ cache = Null
  /\ storage = <<LegacyEntry>>
  /\ now = SetMax(ClockValues)
  /\ calls = [p \in Procs |-> Idle]
  /\ last = [op |-> "init"]
  /\ held = <<StoredEntry(<<"a", "b">>, "p2", <<"m2", "m1">>)>>
  /\ session = Closed

NextStore ==
  \/ Lookup(<<"a">>)
  \/ AddWord(<<"a", "b">>, "p2", "m2")
  \/ UpdateAfterReview(<<"a">>, 1)
  \/ GetWordsForReview
  \/ Import
  \/ Clear
  \/ SegmentTextStart(1, <<"a", ";", "c", "c">>)
  \/ AIResolves(1, <<[word |-> <<"c", "c">>, pinyin |-> "p2", translation |-> "m2"]>>)
  \/ AIRejects(1)
  \/ OpenSession
  \/ ToggleAnswer
  \/ HandleQualityResponse(1)
  \/ CloseSession
  \/ Restart

SpecStore == InitStore /\ [][NextStore]_vars

\* one pass of a review session: the modal is opened five minutes before the
\* clock's first value, on a store of two entries of which the second is due either
\* long since or only shortly after the opening (it was graded AGAIN a little less
\* than ten minutes before); the cards are revealed and graded with every quality
SessionStart == StartTime - 300

SoonDue ==
  [StoredEntry(<<"a", "b">>, "p2", <<"m2">>) EXCEPT
     !.interval = Frac(10, 24 * 60), !.lastReviewed = StartTime - 100 - TenMinutes,
     !.nextReview = StartTime - 100]

InitPass ==
  /\ cache = Null
  /\ storage \in { <<StoredEntry(<<"a">>, "p1", <<"m1">>), StoredEntry(<<"a", "b">>, "p2", <<"m2">>)>>,
                    <<StoredEntry(<<"a">>, "p1", <<"m1">>), SoonDue>> }
  /\ now = SessionStart
  /\ calls = [p \in Procs |-> Idle]
  /\ last = [op |-> "init"]
  /\ held = Null
  /\ session = Closed

NextPass ==
  \/ OpenSession
  \/ ToggleAnswer
  \/ \E q \in Qualities : HandleQualityResponse(q)
  \/ Advance

SpecPass == InitPass /\ [][NextPass]_vars

-----------------------------------------------------------------------------
(* Properties of the dictionary store *)

\* the cache a call starts from, once its loadCache has run
Loaded == { ld.cache : ld \in LoadCache }

IsAddWord == last'.op = "addWord"
IsReview  == last'.op = "updateAfterReview"

\* every entry of c other than the one for w is in d, at the same place, unchanged
OthersUnchanged(c, d, w) ==
  \A i \in 1..Len(c) : c[i].word # w => (i <= Len(d) /\ d[i] = c[i])

NoDuplicates(s) == \A i, j \in 1..Len(s) : s[i] = s[j] => i = j

\* C1 as stated: addWord on a word without an entry creates exactly one entry with
\* usageCount 1, meanings [m], interval 0, easeFactor 2.5, reviewCount 0,
\* lastReviewed 0 and nextReview equal to addedAt.
C1_CreatesEntryDueAtAddedAt ==
  [][ IsAddWord =>
        \E pre \in Loaded :
          ~Has(pre, last'.word) =>
          /\ Len(cache') = Len(pre) + 1
          /\ OthersUnchanged(pre, cache', last'.word)
          /\ LET e == cache'[Len(cache')] IN
               /\ e.word = last'.word
               /\ e.usageCount = 1
               /\ e.meanings = <<last'.translation>>
               /\ e.interval = [n |-> 0, d |-> 1]
               /\ e.easeFactor = 250
               /\ e.reviewCount = 0
               /\ e.lastReviewed = 0
               /\ e.nextReview = e.addedAt ]_vars

\* C1 amended: the same entry is created, and its nextReview is the clock value read
\* right after addedAt: addedAt <= nextReview <= the time at which addWord returns,
\* so the new entry is due as soon as addWord has returned.
C1_CreatesEntryDueOnReturn ==
  [][ IsAddWord =>
        \E pre \in Loaded :
          ~Has(pre, last'.word) =>
          /\ Len(cache') = Len(pre) + 1
          /\ OthersUnchanged(pre, cache', last'.word)
          /\ LET e == cache'[Len(cache')] IN
               /\ e.word = last'.word
               /\ e.pinyin = last'.pinyin
               /\ e.usageCount = 1
               /\ e.meanings = <<last'.translation>>
               /\ e.interval = [n |-> 0, d |-> 1]
               /\ e.easeFactor = 250
               /\ e.reviewCount = 0
               /\ e.lastReviewed = 0
               /\ now <= e.addedAt
               /\ e.addedAt <= e.nextReview
               /\ e.nextReview <= now' ]_vars

\* a new entry was created beside an older one, and the clock moved between the reads
C1_Witness ==
  /\ last.op = "addWord"
  /\ Len(cache) = 2
  /\ cache[2].word = last.word
  /\ cache[2].usageCount = 1
  /\ cache[2].addedAt < cache[2].nextReview

\* C2: addWord on an existing entry leaves meanings unchanged when the meaning is
\* already there and otherwise appends exactly that meaning at the end, earlier
\* meanings keeping their order; meanings is never empty and never holds duplicates.
C2_MeaningsAppendOnly ==
  [][ /\ IsAddWord =>
           \E pre \in Loaded :
           Has(pre, last'.word) =>
             LET old == Get(pre, last'.word).meanings
                 new == Get(cache', last'.word).meanings
                 m   == last'.translation
             IN IF \E i \in 1..Len(old) : old[i] = m
                THEN new = old
                ELSE /\ Len(new) = Len(old) + 1
                     /\ \A i \in 1..Len(old) : new[i] = old[i]
                     /\ new[Len(new)] = m
      /\ cache' # Null =>
           \A i \in 1..Len(cache') :
             cache'[i].meanings # <<>> /\ NoDuplicates(cache'[i].meanings) ]_vars

\* a third meaning was appended behind two earlier ones
C2_Witness ==
  /\ last.op = "addWord"
  /\ Has(cache, last.word)
  /\ LET ms == Get(cache, last.word).meanings IN
       Len(ms) = 3 /\ ms[3] = last.translation

\* C3: addWord on an existing entry leaves its nextReview, interval, easeFactor,
\* reviewCount, lastReviewed and addedAt unchanged, and every other entry unchanged.
C3_AddWordKeepsSRSFields ==
  [][ IsAddWord =>
        \E pre \in Loaded :
          Has(pre, last'.word) =>
            LET old == Get(pre, last'.word)
                new == Get(cache', last'.word)
            IN /\ new.nextReview = old.nextReview
               /\ new.interval = old.interval
               /\ new.easeFactor = old.easeFactor
               /\ new.reviewCount = old.reviewCount
               /\ new.lastReviewed = old.lastReviewed
               /\ new.addedAt = old.addedAt
               /\ new.word = old.word
               /\ new.usageCount = old.usageCount + 1
               /\ Len(cache') = Len(pre)
               /\ OthersUnchanged(pre, cache', last'.word) ]_vars

\* addWord hit an entry that had been graded, with another entry beside it
C3_Witness ==
  /\ last.op = "addWord"
  /\ Len(cache) = 2
  /\ LET e == Get(cache, last.word) IN
       e.usageCount > 1 /\ e.reviewCount > 0 /\ e.lastReviewed > 0

-----------------------------------------------------------------------------
(* Properties of the scheduler *)

Graded(q) == IsReview /\ last'.quality = q

\* r = Math.round(x * n / d): the integer r with r - 1/2 <= x * n / d < r + 1/2
IsRounded(r, x, n, d) ==
  /\ r.d = 1
  /\ (2 * r.n - 1) * x.d * d <= 2 * x.n * n
  /\ 2 * x.n * n < (2 * r.n + 1) * x.d * d

\* C4: AGAIN sets reviewCount 0 and interval 10/1440 days whatever the prior state,
\* and leaves easeFactor unchanged.
C4_AgainResets ==
  [][ Graded(1) =>
        \E pre \in Loaded : Has(pre, last'.word) =>
        LET old == Get(pre, last'.word)
            new == Get(cache', last'.word)
        IN /\ new.reviewCount = 0
           /\ new.interval.n * (24 * 60) = 10 * new.interval.d
           /\ new.easeFactor = old.easeFactor ]_vars

\* AGAIN was given to an entry whose ease had been lowered before
C4_Witness ==
  /\ last.op = "updateAfterReview"
  /\ last.quality = 1
  /\ Has(cache, last.word)
  /\ Get(cache, last.word).easeFactor = 205
  /\ Get(cache, last.word).reviewCount = 0

\* C5: every entry of the store has easeFactor >= 1.3 in every reachable state.
C5_EaseFloor ==
  cache # Null => \A i \in 1..Len(cache) : cache[i].easeFactor >= 130

\* an entry sits on the floor after a HARD grade
C5_Witness ==
  /\ last.op = "updateAfterReview"
  /\ last.quality = 3
  /\ Has(cache, last.word)
  /\ Get(cache, last.word).easeFactor = 130

GoodInterval(old, new) ==
  /\ new.reviewCount = old.reviewCount + 1
  /\ new.reviewCount = 1 => new.interval = [n |-> 1, d |-> 1]
  /\ new.reviewCount = 2 => new.interval = [n |-> 6, d |-> 1]
  /\ new.reviewCount > 2 => IsRounded(new.interval, old.interval, old.easeFactor, 100)

\* C6 as stated: GOOD increments reviewCount, sets interval 1, 6 or
\* round(interval * easeFactor), and raises easeFactor by 0.02.
C6_GoodRaisesEase ==
  [][ Graded(4) =>
        \E pre \in Loaded : Has(pre, last'.word) =>
        LET old == Get(pre, last'.word)
            new == Get(cache', last'.word)
        IN /\ GoodInterval(old, new)
           /\ new.easeFactor = old.easeFactor + 2 ]_vars

\* C6 amended: GOOD increments reviewCount, sets interval 1, 6 or
\* round(interval * easeFactor) with the easeFactor before the call, and leaves
\* easeFactor unchanged; a never-reviewed entry with easeFactor 2.5 ends with
\* reviewCount 1, interval 1, easeFactor 2.5 and nextReview = now + 1 day.
C6_GoodKeepsEase ==
  [][ Graded(4) =>
        \E pre \in Loaded : Has(pre, last'.word) =>
        LET old == Get(pre, last'.word)
            new == Get(cache', last'.word)
        IN /\ GoodInterval(old, new)
           /\ new.easeFactor = old.easeFactor
           /\ new.lastReviewed = now'
           /\ (old.reviewCount = 0 /\ old.easeFactor = 250) =>
                /\ new.reviewCount = 1
                /\ new.interval = [n |-> 1, d |-> 1]
                /\ new.easeFactor = 250
                /\ new.nextReview = now' + Day ]_vars

\* GOOD took the round(interval * easeFactor) branch on a lowered ease
C6_Witness ==
  /\ last.op = "updateAfterReview"
  /\ last.quality = 4
  /\ Has(cache, last.word)
  /\ LET e == Get(cache, last.word) IN
       e.reviewCount = 3 /\ e.easeFactor = 235 /\ e.interval = [n |-> 14, d |-> 1]

\* C7: EASY increments reviewCount, sets interval 4, 10 or
\* round(interval * easeFactor * 1.3), and sets easeFactor to min(2.5, easeFactor + 0.15);
\* reviewCount 2, interval 6, easeFactor 2.5 gives reviewCount 3, interval 20, easeFactor 2.5.
C7_EasyCapsEase ==
  [][ Graded(5) =>
        \E pre \in Loaded : Has(pre, last'.word) =>
        LET old == Get(pre, last'.word)
            new == Get(cache', last'.word)
        IN /\ new.reviewCount = old.reviewCount + 1
           /\ new.reviewCount = 1 => new.interval = [n |-> 4, d |-> 1]
           /\ new.reviewCount = 2 => new.interval = [n |-> 10, d |-> 1]
           /\ new.reviewCount > 2 =>
                IsRounded(new.interval, old.interval, old.easeFactor * 13, 1000)
           /\ new.easeFactor <= 250
           /\ old.easeFactor + 15 <= 250 => new.easeFactor = old.easeFactor + 15
           /\ old.easeFactor + 15 > 250 => new.easeFactor = 250
           /\ (old.reviewCount = 2 /\ old.interval = [n |-> 6, d |-> 1]
                 /\ old.easeFactor = 250) =>
                /\ new.reviewCount = 3
                /\ new.interval = [n |-> 20, d |-> 1]
                /\ new.easeFactor = 250 ]_vars

\* the scenario's outcome: EASY on reviewCount 2, interval 6, easeFactor 2.5
C7_Witness ==
  /\ last.op = "updateAfterReview"
  /\ last.quality = 5
  /\ Has(cache, last.word)
  /\ LET e == Get(cache, last.word) IN
       e.reviewCount = 3 /\ e.easeFactor = 250 /\ e.interval = [n |-> 20, d |-> 1]

\* C8: HARD picks its branch from the reviewCount before the call: 0 gives interval
\* 0.5 and reviewCount 1; 1 gives interval 1 and reviewCount 2; otherwise interval
\* max(1, interval * 1.2) and reviewCount + 1; easeFactor becomes max(1.3, easeFactor - 0.15).
C8_HardBranches ==
  [][ Graded(3) =>
        \E pre \in Loaded : Has(pre, last'.word) =>
        LET old == Get(pre, last'.word)
            new == Get(cache', last'.word)
        IN /\ old.reviewCount = 0 =>
                new.interval = [n |-> 1, d |-> 2] /\ new.reviewCount = 1
           /\ old.reviewCount = 1 =>
                new.interval = [n |-> 1, d |-> 1] /\ new.reviewCount = 2
           /\ old.reviewCount > 1 =>
                /\ new.reviewCount = old.reviewCount + 1
                /\ new.interval.n >= new.interval.d
                /\ new.interval.n * 10 * old.interval.d
                     >= old.interval.n * 12 * new.interval.d
                /\ \/ new.interval = [n |-> 1, d |-> 1]
                   \/ new.interval.n * 10 * old.interval.d
                        = old.interval.n * 12 * new.interval.d
           /\ new.easeFactor >= 130
           /\ new.easeFactor >= old.easeFactor - 15
           /\ new.easeFactor = 130 \/ new.easeFactor = old.easeFactor - 15 ]_vars

\* HARD took the interval * 1.2 branch: 6 days became 7.2 days
C8_Witness ==
  /\ last.op = "updateAfterReview"
  /\ last.quality = 3
  /\ Has(cache, last.word)
  /\ LET e == Get(cache, last.word) IN
       e.reviewCount = 3 /\ e.interval = [n |-> 36, d |-> 5]

-----------------------------------------------------------------------------
(* Properties of the review queue *)

\* C9: getWordsForReview returns exactly the entries with nextReview <= now, each
\* once, ordered by non-decreasing nextReview.
C9_DueExactlyAndSorted ==
  last.op = "getWordsForReview" =>
    LET ret == last.ret IN
      /\ \A i \in 1..Len(ret) :
           Has(cache, ret[i].word) /\ Get(cache, ret[i].word) = ret[i]
             /\ ret[i].nextReview <= last.at
      /\ \A i \in 1..Len(cache) :
           cache[i].nextReview <= last.at =>
             Cardinality({ j \in 1..Len(ret) : ret[j] = cache[i] }) = 1
      /\ \A i, j \in 1..Len(ret) : i < j => ret[i].nextReview <= ret[j].nextReview

\* two due entries came back in the opposite of their insertion order
C9_Witness ==
  /\ last.op = "getWordsForReview"
  /\ Len(last.ret) = 2
  /\ last.ret[1].nextReview < last.ret[2].nextReview
  /\ cache[1] = last.ret[2]

\* one entry was held back as not yet due while another was returned
C9_WitnessFiltered ==
  /\ last.op = "getWordsForReview"
  /\ Len(last.ret) = 1
  /\ Len(cache) = 2

-----------------------------------------------------------------------------
(* Properties of the segmenter *)

\* some substring of length 1 to 4 starting at position i has a store entry
KnownAt(u, i, c) ==
  \E len \in 1..4 : i + len - 1 <= Len(u) /\ Has(c, SubSeq(u, i, i + len - 1))

\* the scan positions: the first character, and the character behind each longest match
RECURSIVE ScanPositions(_, _, _)
ScanPositions(u, i, c) ==
  IF i > Len(u) \/ ~KnownAt(u, i, c) THEN {i}
  ELSE {i} \cup
       ScanPositions(u, i + SetMax({ len \in 1..4 : /\ i + len - 1 <= Len(u)
                                                     /\ Has(c, SubSeq(u, i, i + len - 1)) }), c)

\* the scan of u meets a position at which nothing is known
Unknown(u, c) ==
  \E i \in ScanPositions(u, 1, c) : i <= Len(u) /\ ~KnownAt(u, i, c)

Keys(c) == { c[i].word : i \in 1..Len(c) }

IsSegmenterRun ==
  last'.op \in {"segmentText", "aiResolves", "aiRejects"}

\* the first unit a run of segmentText has to decide
FirstUnit == IF last'.op = "segmentText" THEN 1 ELSE calls[last'.proc].idx + 1

\* C10: dictionary-only segmentation is all-or-nothing: a unit whose scan meets a
\* position with no store entry of length 1 to 4 makes trySegmentFromDictionary fail
\* with no match emitted, and segmentText hands the whole unit text to the AI
\* collaborator, its output holding nothing for that unit yet.
C10_AllOrNothing ==
  [][ /\ (cache' # Null /\ (cache = Null \/ Keys(cache') # Keys(cache))) =>
           \A u \in AllUnits :
             Unknown(u, cache') =>
               LET r == TrySegmentFromDictionary(u, cache')
               IN ~r.ok /\ r.segments = <<>>
      /\ IsSegmenterRun =>
           LET call  == calls'[last'.proc]
               stuck == { k \in FirstUnit..Len(call.units) : Unknown(call.units[k], cache') }
           IN IF stuck = {}
              THEN call.pc = "done"
              ELSE LET k == CHOOSE x \in stuck : \A y \in stuck : x <= y
                   IN /\ call.pc = "awaitAI"
                      /\ call.idx = k
                      /\ call.req = call.units[k]
                      /\ Len(call.out) = k - 1 ]_vars

\* "abcc" with "ab" in the store and not "cc": the whole unit is at the AI
C10_Witness ==
  /\ last.op = "segmentText"
  /\ calls[1].pc = "awaitAI"
  /\ calls[1].req = <<"a", "b", "c", "c">>
  /\ calls[1].out = <<>>
  /\ Has(cache, <<"a", "b">>)
  /\ ~Has(cache, <<"c", "c">>)

\* the position in the unit at which the k-th emitted segment starts
RECURSIVE StartOf(_, _)
StartOf(segs, k) == IF k = 1 THEN 1 ELSE StartOf(segs, k - 1) + Len(segs[k - 1].word)

\* C11: at every scan position the emitted word is the longest substring starting
\* there, of length at most 4 and at most the rest of the text, that has a store
\* entry, and the triple carries the entry's stored pinyin and its first meaning;
\* the scan succeeds exactly when every position so reached has such a substring,
\* and the emitted words then spell the unit.
C11_LongestMatch ==
  last.op = "trySegmentFromDictionary" =>
    LET u    == last.text
        segs == last.ret.segments
    IN /\ last.ret.ok <=> ~Unknown(u, cache)
       /\ last.ret.ok =>
            /\ StartOf(segs, Len(segs) + 1) = Len(u) + 1
            /\ \A k \in 1..Len(segs) :
                 LET i   == StartOf(segs, k)
                     len == Len(segs[k].word)
                 IN /\ len >= 1 /\ len <= 4 /\ i + len - 1 <= Len(u)
                    /\ segs[k].word = SubSeq(u, i, i + len - 1)
                    /\ Has(cache, segs[k].word)
                    /\ \A longer \in (len + 1)..4 :
                         i + longer - 1 <= Len(u) => ~Has(cache, SubSeq(u, i, i + longer - 1))
                    /\ segs[k].pinyin = Get(cache, segs[k].word).pinyin
                    /\ segs[k].translation = Get(cache, segs[k].word).meanings[1]

\* "abcca" with "a", "ab" and "abcc" in the store: "abcc" was taken, then "a"
C11_Witness ==
  /\ last.op = "trySegmentFromDictionary"
  /\ last.text = <<"a", "b", "c", "c", "a">>
  /\ Has(cache, <<"a">>) /\ Has(cache, <<"a", "b">>) /\ Has(cache, <<"a", "b", "c", "c">>)
  /\ last.ret.ok
  /\ Len(last.ret.segments) = 2
  /\ last.ret.segments[1] = [word |-> <<"a", "b", "c", "c">>, pinyin |-> "p1", translation |-> "m3"]
  /\ last.ret.segments[2] = [word |-> <<"a">>, pinyin |-> "p1", translation |-> "m1"]

\* "aaaaa" with "a" and "aaaaa" in the store: the five-character entry is outside
\* the window, the unit comes back as five times "a"
C11_WitnessWindow ==
  /\ last.op = "trySegmentFromDictionary"
  /\ last.text = <<"a", "a", "a", "a", "a">>
  /\ Has(cache, <<"a", "a", "a", "a", "a">>)
  /\ last.ret.ok
  /\ Len(last.ret.segments) = 5

\* the pinyin addWord leaves for word w after the segments segs, given pinyin p before
RECURSIVE LastPinyin(_, _, _)
LastPinyin(segs, w, p) ==
  IF segs = <<>> THEN p
  ELSE LastPinyin(Tail(segs), w, IF Head(segs).word = w THEN Head(segs).pinyin ELSE p)

\* C12: the units of one call are handled in text order with at most one AI call in
\* flight (the output holds the segments of exactly the units before the awaited
\* one); when the AI answers for unit k its triples are the output for unit k and are
\* in the store, with their translation and pinyin, before any later unit is scanned:
\* every later unit handled in the same run has the segments the dictionary gives
\* with the learned words in it, and the run stops only at a unit that the store with
\* the learned words cannot segment.
C12_InOrderLearnThenScan ==
  [][ /\ \A p \in Procs :
           LET call == calls'[p] IN
             /\ call.pc = "awaitAI" =>
                  /\ call.idx \in 1..Len(call.units)
                  /\ call.req = call.units[call.idx]
                  /\ Len(call.out) = call.idx - 1
             /\ call.pc = "done" => Len(call.out) = Len(call.units)
             /\ (calls[p].pc = "awaitAI" /\ call.pc = "awaitAI") => call.idx >= calls[p].idx
      /\ last'.op = "aiResolves" =>
           LET old == calls[last'.proc]
               new == calls'[last'.proc]
               ai  == EnsurePinyin(last'.answer)
               k   == old.idx
           IN /\ new.units = old.units
              /\ Len(new.out) >= k
              /\ SubSeq(new.out, 1, k - 1) = old.out
              /\ new.out[k] = ai
              /\ \A n \in 1..Len(ai) :
                   /\ Has(cache', ai[n].word)
                   /\ Contains(Get(cache', ai[n].word).meanings, ai[n].translation)
                   /\ Get(cache', ai[n].word).pinyin = LastPinyin(ai, ai[n].word, "")
              /\ \A j \in (k + 1)..Len(new.out) :
                   LET r == TrySegmentFromDictionary(new.units[j], cache')
                   IN r.ok /\ new.out[j] = r.segments
              /\ new.pc = "awaitAI" =>
                   /\ new.idx > k
                   /\ ~TrySegmentFromDictionary(new.units[new.idx], cache').ok ]_vars

\* "ab;ab" with "ab" not in the store: the AI segmented the first unit, and the second
\* came from the dictionary with the word just learned
C12_Witness ==
  /\ last.op = "aiResolves"
  /\ calls[1].pc = "done"
  /\ calls[1].units = << <<"a", "b">>, <<"a", "b">> >>
  /\ calls[1].out[1] = << [word |-> <<"a", "b">>, pinyin |-> "p2", translation |-> "m2"] >>
  /\ calls[1].out[2] = << [word |-> <<"a", "b">>, pinyin |-> "p2", translation |-> "m2"] >>
  /\ Get(cache, <<"a", "b">>).usageCount = 1

\* C13: when the AI call for a unit fails, segmentText does not reject: it emits
\* exactly one triple for that unit, with the unit text as word and the translation
\* "[Translation failed]", leaves the store and its persisted list as they were, and
\* goes on with the remaining units (each from the dictionary, up to the next unit
\* the dictionary cannot segment, or to the end).
C13_FallbackOnFailure ==
  [][ last'.op = "aiRejects" =>
        LET old == calls[last'.proc]
            new == calls'[last'.proc]
            k   == old.idx
        IN /\ new.pc \in {"awaitAI", "done"}
           /\ new.units = old.units
           /\ Len(new.out) >= k
           /\ SubSeq(new.out, 1, k - 1) = old.out
           /\ Len(new.out[k]) = 1
           /\ new.out[k][1].word = old.units[k]
           /\ new.out[k][1].translation = "[Translation failed]"
           /\ cache' = cache
           /\ storage' = storage
           /\ ~Has(cache', old.units[k]) \/ Has(cache, old.units[k])
           /\ \A j \in (k + 1)..Len(new.out) :
                LET r == TrySegmentFromDictionary(new.units[j], cache)
                IN r.ok /\ new.out[j] = r.segments
           /\ new.pc = "awaitAI" =>
                /\ new.idx > k
                /\ Len(new.out) = new.idx - 1
                /\ ~TrySegmentFromDictionary(new.units[new.idx], cache).ok
           /\ new.pc = "done" => Len(new.out) = Len(new.units) ]_vars

\* "cc; ab " with "ab" in the store and not "cc": the AI call for "cc" failed, the
\* fallback triple stands for it, "ab" came from the dictionary, and the call is done
C13_Witness ==
  /\ last.op = "aiRejects"
  /\ calls[1].pc = "done"
  /\ Len(calls[1].out) = 2
  /\ calls[1].out[1] = << [word |-> <<"c", "c">>, pinyin |-> GeneratedPinyin(<<"c", "c">>),
                           translation |-> "[Translation failed]"] >>
  /\ calls[1].out[2][1].word = <<"a", "b">>
  /\ ~Has(cache, <<"c", "c">>)

\* C14: for every unit of the text, the output of a finished segmentText call holds
\* at least one triple produced for that unit, whatever the store contains and
\* whatever the AI returns or however it fails, the triples of the units standing in
\* the order of the units.
C14_EveryUnitHasOutput ==
  \A p \in Procs :
    calls[p].pc = "done" =>
      /\ Len(calls[p].out) = Len(calls[p].units)
      /\ \A k \in 1..Len(calls[p].units) : Len(calls[p].out[k]) >= 1

\* C15: when every unit of a text is resolvable by dictionary-only segmentation,
\* segmentText finishes without a call to the AI collaborator and without changing
\* the store, and a second call on the same text right after the first returns the
\* identical sequence of (word, pinyin, translation) triples.
C15_KnownTextIsStable ==
  [][ last'.op = "segmentText" =>
        LET p        == last'.proc
            units    == SplitIntoSentences(last'.text)
            allKnown == \A k \in 1..Len(units) : ~Unknown(units[k], cache')
        IN /\ allKnown =>
                /\ calls'[p].pc = "done"
                /\ Len(calls'[p].out) = Len(units)
                /\ cache # Null => cache' = cache /\ storage' = storage
           /\ ( /\ allKnown
                /\ last.op = "segmentText" /\ last.proc = p /\ last.text = last'.text
                /\ calls[p].pc = "done" ) =>
                /\ Flatten(calls'[p].out) = Flatten(calls[p].out)
                /\ cache' = cache ]_vars

\* "ab;cc" with both words in the store: the call returned at once, the two units
\* segmented from the dictionary
C15_Witness ==
  /\ last.op = "segmentText"
  /\ last.text = <<"a", "b", ";", "c", "c">>
  /\ calls[1].pc = "done"
  /\ Len(Flatten(calls[1].out)) = 2
  /\ Flatten(calls[1].out)[1].word = <<"a", "b">>
  /\ Flatten(calls[1].out)[2].word = <<"c", "c">>

-----------------------------------------------------------------------------
(* Properties of export, clear and import *)

\* the same set of words and, for each word, the same meanings in the same order and
\* the same pinyin
SameWords(c, d) ==
  /\ Keys(c) = Keys(d)
  /\ \A w \in Keys(c) :
       Get(c, w).meanings = Get(d, w).meanings /\ Get(c, w).pinyin = Get(d, w).pinyin

\* C16: round trip: export() of a loaded store returns a list with the words,
\* meanings and pinyin of the store; clear() leaves the store empty; import() of the
\* exported string into the cleared store yields a store with the same set of words
\* and, for each word, the same meanings in the same order and the same pinyin.
C16_RoundTrip ==
  [][ /\ (last'.op = "export" /\ cache # Null) => SameWords(held', cache)
      /\ last'.op = "clear" => (cache' = <<>> /\ storage' = NoItem /\ held' = held)
      /\ (last'.op = "import" /\ cache = <<>>) =>
           /\ SameWords(cache', held)
           /\ NoDuplicates([i \in 1..Len(cache') |-> cache'[i].word]) ]_vars

\* a store of two words, one with two meanings, met three times and graded, came
\* back from export, clear and import with its words, meanings and pinyin, its usage
\* counted anew and its review forgotten
C16_Witness ==
  /\ last.op = "import"
  /\ held # Null
  /\ Len(held) = 2
  /\ Get(held, <<"a">>).meanings = <<"m2", "m1">>
  /\ Get(held, <<"a">>).usageCount = 3
  /\ Get(held, <<"a">>).lastReviewed > 0
  /\ Get(held, <<"a">>).pinyin = "p2"
  /\ SameWords(cache, held)
  /\ Get(cache, <<"a">>).lastReviewed = 0
  /\ Get(cache, <<"a">>).usageCount = 2

-----------------------------------------------------------------------------
(* Properties of loading *)

SRSFields == {"nextReview", "interval", "easeFactor", "reviewCount", "lastReviewed"}

SRSDefault(f) == IF f = "interval" THEN [n |-> 0, d |-> 1] ELSE IF f = "easeFactor" THEN 250 ELSE 0

\* C17: when the persisted list holds an entry lacking any SRS field, the first load
\* backfills the missing fields with the new-entry defaults (nextReview = now,
\* interval 0, easeFactor 2.5, reviewCount 0, lastReviewed 0), keeps the fields that
\* are present, and writes the backfilled list to persistence during that same load;
\* loading a list that lacks no field changes nothing and writes nothing.
C17_BackfillAndPersist ==
  [][ ( /\ cache = Null
        /\ storage \notin MalformedStorage \cup {NoItem}
        /\ last'.op \in {"lookup", "getWordsForReview"} ) =>
        /\ Len(cache') = Len(storage)
        /\ \A i \in 1..Len(storage) :
             LET raw == storage[i]
                 e   == cache'[i]
             IN /\ \A f \in DOMAIN raw : e[f] = raw[f]
                /\ \A f \in SRSFields \ DOMAIN raw :
                     IF f = "nextReview"
                     THEN now <= e.nextReview /\ e.nextReview <= now'
                     ELSE e[f] = SRSDefault(f)
        /\ IF \E i \in 1..Len(storage) : SRSFields \ DOMAIN storage[i] # {}
           THEN storage' = cache'
           ELSE storage' = storage /\ cache' = storage ]_vars

\* C18: when the persisted data is malformed, the first store operation does not
\* throw, and the store behaves as an empty store.
C18_MalformedIsEmpty ==
  [][ (cache = Null /\ storage \in MalformedStorage /\ last'.op \in StoreOps) =>
        (~last'.error /\ cache' = <<>>) ]_vars

-----------------------------------------------------------------------------
(* Properties of a review of an unknown word *)

\* C19 as stated: updateAfterReview for a word that has no entry in the store is
\* surfaced to the caller as an explicit error.
C19_UnknownWordIsAnError ==
  [][ IsReview =>
        \E ld \in LoadCache : ~Has(ld.cache, last'.word) => last'.error ]_vars

\* C19 amended: updateAfterReview for a word that has no entry in the loaded store
\* is a silent no-op: it returns normally, raising no error for the missing word, the
\* store holds what its load left, no entry is created for the word, and nothing is
\* written to persistence.
C19_UnknownWordIsNoOp ==
  [][ IsReview =>
        \E ld \in LoadCache :
          ~Has(ld.cache, last'.word) =>
            /\ ~last'.error
            /\ cache' = ld.cache
            /\ storage' = ld.storage
            /\ ~Has(cache', last'.word) ]_vars

\* a word without an entry was graded while the store held another word
C19_Witness ==
  /\ last.op = "updateAfterReview"
  /\ ~last.error
  /\ Len(cache) = 1
  /\ ~Has(cache, last.word)
  /\ cache[1].usageCount = 2
  /\ storage = cache

-----------------------------------------------------------------------------
(* Properties of the review session *)

\* the words of c that are due at t
DueWords(c, t) == { c[i].word : i \in { j \in 1..Len(c) : c[j].nextReview <= t } }

\* C20: grading card i of a list of length n applies updateAfterReview to exactly
\* the entry at index i; then, if i + 1 < n, the session shows card i + 1 of the same
\* list with the answer hidden; otherwise the list is fetched anew from
\* getWordsForReview (the entries due at the time of the fetch, each once), the index
\* is 0 and the answer hidden, an empty fetch leaving the session with no card. The
\* list changes at no other step of an open session.
C20_GradeAdvancesOrReloads ==
  [][ /\ last'.op = "handleQualityResponse" =>
           LET i == session.currentIndex
               n == Len(session.wordsToReview)
               w == session.wordsToReview[i + 1]
           IN /\ last'.index = i /\ last'.word = w
              /\ Keys(cache') = Keys(cache)
              /\ \A v \in Keys(cache) \ {w} : Get(cache', v) = Get(cache, v)
              /\ Has(cache, w) =>
                   \E t \in ClockValues :
                     /\ now <= t /\ t <= now'
                     /\ Get(cache', w) = Schedule(Get(cache, w), last'.quality, t)
              /\ IF i + 1 < n
                 THEN /\ ~last'.refetched
                      /\ session' = [session EXCEPT !.currentIndex = i + 1,
                                                    !.showAnswer = FALSE]
                 ELSE /\ last'.refetched
                      /\ session'.isOpen
                      /\ session'.currentIndex = 0
                      /\ ~session'.showAnswer
                      /\ now <= last'.at /\ last'.at <= now'
                      /\ Range(session'.wordsToReview) = DueWords(cache', last'.at)
                      /\ NoDuplicates(session'.wordsToReview)
      /\ last'.op \in {"toggleAnswer", "closeSession", "advance"} =>
           session'.wordsToReview = session.wordsToReview ]_vars

\* the second of two cards was graded AGAIN, the list was fetched anew at once and
\* came back empty: no card is shown
C20_Witness ==
  /\ last.op = "handleQualityResponse"
  /\ last.index = 1
  /\ last.quality = 1
  /\ last.refetched
  /\ session.isOpen
  /\ session.wordsToReview = <<>>
  /\ Get(cache, last.word).lastReviewed = last.at

\* the first of two cards was graded: the second is shown, its answer hidden
C20_WitnessNextCard ==
  /\ last.op = "handleQualityResponse"
  /\ last.index = 0
  /\ ~last.refetched
  /\ Len(session.wordsToReview) = 2
  /\ session.currentIndex = 1
  /\ ~session.showAnswer

\* the only card was graded AGAIN ten minutes before the fetch: it is shown again
C20_WitnessDueAgain ==
  /\ last.op = "handleQualityResponse"
  /\ last.refetched
  /\ Len(session.wordsToReview) = 1
  /\ session.wordsToReview[1] = last.word

-----------------------------------------------------------------------------
(* Properties of the review session, the store's contents and persistence *)

IsGrade == last'.op = "handleQualityResponse"

C21_ButtonsOnlyWhenRevealed ==
  [][IsGrade => session.showAnswer /\ session.currentIndex < Len(session.wordsToReview)]_vars

\* the words the store holds: those of the cache or, before the first load after a
\* page load, those persisted
StoreWords(c, st) == IF c = Null THEN Keys(ExportOf(st)) ELSE Keys(c)

\* C22: the set of words in the store never shrinks except through clear(): every
\* other step keeps each word, and clear() leaves no entry in the cache or in
\* persistence, so that a lookup right after it finds nothing
C22_OnlyClearRemoves ==
  [][ /\ last'.op # "clear" => StoreWords(cache, storage) \subseteq StoreWords(cache', storage')
      /\ last'.op = "clear" => cache' = <<>> /\ ExportOf(storage') = <<>>
      /\ last'.op = "lookup" /\ last.op = "clear" => last'.ret = Null ]_vars

\* the word persisted at the start is looked up after clear() and is not found
C22_Witness ==
  /\ last.op = "lookup"
  /\ last.word = <<"a">>
  /\ last.ret = Null
  /\ cache = <<>>
  /\ storage = NoItem

\* C23: once the AI collaborator has resolved a unit (with an answer that names at
\* least one word), the store segments that unit text by itself, so that a later
\* segmentText call on it makes no AI call
C23_ResolvedUnitIsLearned ==
  [][last'.op = "aiResolves" /\ last'.answer # <<>> =>
       LET knownWords == TrySegmentFromDictionary(calls[last'.proc].req, cache')
       IN knownWords.ok /\ Len(knownWords.segments) > 0]_vars

\* how many of the segments are the word w
Occurrences(w, segs) == Cardinality({ k \in 1..Len(segs) : segs[k].word = w })

\* C24: usageCount counts every encounter in segmentText: a call that resolves all
\* its units from the dictionary raises the count of each word by the number of
\* times it emitted the word; and no step lowers the count of a word the store keeps
C24_EveryEncounterCounts ==
  [][ /\ last'.op = "segmentText" /\ calls'[last'.proc].pc = "done" =>
           \E ld \in LoadCache :
             \A w \in Keys(ld.cache) :
               Get(cache', w).usageCount =
                 Get(ld.cache, w).usageCount + Occurrences(w, Flatten(calls'[last'.proc].out))
      /\ cache # Null /\ cache' # Null =>
           \A w \in Keys(cache) \cap Keys(cache') :
             Get(cache', w).usageCount >= Get(cache, w).usageCount ]_vars

\* C25: once the cache is loaded, and after every mutating call, the list held in
\* persistence (an absent key counting as the empty list) equals the entries of the
\* cache field for field, so that export() returns the cache contents
C25_PersistenceMirrorsCache ==
  cache # Null /\ storage \notin MalformedStorage => ExportOf(storage) = cache

\* the order of strings: character by character, a prefix before its extensions
CharRank(ch) == CASE ch = " " -> 0 [] ch = ";" -> 1 [] ch = "a" -> 2 [] ch = "b" -> 3 [] OTHER -> 4

RECURSIVE WordBefore(_, _)
WordBefore(v, w) ==
  IF w = <<>> THEN FALSE
  ELSE IF v = <<>> THEN TRUE
  ELSE IF Head(v) # Head(w) THEN CharRank(Head(v)) < CharRank(Head(w))
  ELSE WordBefore(Tail(v), Tail(w))

\* C26: getWordsForReview puts two due entries with equal nextReview in the order
\* of their words, whatever the order in which they were inserted into the store
C26_TiesOrderedByWord ==
  [][last'.op = "getWordsForReview" =>
       \A i, j \in 1..Len(last'.ret) :
         i < j /\ last'.ret[i].nextReview = last'.ret[j].nextReview =>
           WordBefore(last'.ret[i].word, last'.ret[j].word)]_vars

\* C27: every grade with a quality in {1,3,4,5}, given at the time now that
\* updateAfterReview reads, sets lastReviewed = now and nextReview = now + interval
\* days with interval > 0, and interval >= 1 when the resulting reviewCount is at
\* least 2; the graded entry is not due at now
C27_GradedIsNotDue ==
  [][ IsReview /\ last'.quality \in Qualities /\ Has(cache', last'.word) =>
        LET new == Get(cache', last'.word)
        IN /\ new.lastReviewed = now'
           /\ new.nextReview * new.interval.d = now' * new.interval.d + new.interval.n * Day
           /\ new.interval.n > 0
           /\ new.reviewCount >= 2 => new.interval.n >= new.interval.d
           /\ ~IsDue(new, now') ]_vars

\* a third HARD grade in a row gave an interval of 1.2 days, counted from the grade
C27_Witness ==
  /\ last.op = "updateAfterReview"
  /\ last.quality = 3
  /\ Has(cache, last.word)
  /\ Get(cache, last.word).reviewCount = 3
  /\ Get(cache, last.word).interval = Frac(6, 5)
  /\ Get(cache, last.word).lastReviewed = now
  /\ Get(cache, last.word).nextReview > now + Day

\* a pass over the list ends: its last card is graded and the list fetched anew
EndsPass == last'.op = "handleQualityResponse" /\ last'.refetched

\* the cards of an open session are distinct and the index points at one of them
CardsInOrder(ses) ==
  /\ NoDuplicates(ses.wordsToReview)
  /\ ses.wordsToReview # <<>> =>
       0 <= ses.currentIndex /\ ses.currentIndex < Len(ses.wordsToReview)

\* each grade is given to the card at the index, and moves the index on by one
\* until the last card ends the pass
GradesEachOnce ==
  IsGrade =>
    /\ last'.word = session.wordsToReview[session.currentIndex + 1]
    /\ IF session.currentIndex + 1 < Len(session.wordsToReview)
       THEN /\ ~last'.refetched
            /\ session'.wordsToReview = session.wordsToReview
            /\ session'.currentIndex = session.currentIndex + 1
       ELSE last'.refetched

\* C28: a session started with n due entries terminates: with no entry added and
\* less than 10 minutes gone since the start, the fetch that follows the grade of
\* the last card is empty and the session shows no card; meanwhile the index stays
\* within the list and every card is graded exactly once
C28_PassEndsEmpty ==
  [][ /\ session'.isOpen => CardsInOrder(session')
      /\ GradesEachOnce
      /\ EndsPass /\ last'.at - SessionStart < TenMinutes =>
           session'.isOpen /\ session'.wordsToReview = <<>> ]_vars

\* C28 as it holds: the fetch after the last card is empty when, besides, no entry
\* outside the list has fallen due by then (each card having been graded less than
\* 10 minutes before the fetch)
C28_PassEndsEmptyUnlessOthersFallDue ==
  [][ /\ session'.isOpen => CardsInOrder(session')
      /\ GradesEachOnce
      /\ ( /\ EndsPass
           /\ \A w \in Range(session.wordsToReview) :
                last'.at - Get(cache', w).lastReviewed < TenMinutes
           /\ \A v \in Keys(cache') \ Range(session.wordsToReview) :
                ~IsDue(Get(cache', v), last'.at) ) =>
           session'.isOpen /\ session'.wordsToReview = <<>> ]_vars

\* the second of two cards was graded HARD five minutes after the session started,
\* the first having been graded AGAIN: the fetch is empty and no card is shown
C28_Witness ==
  /\ last.op = "handleQualityResponse"
  /\ last.refetched
  /\ last.index = 1
  /\ last.quality = 3
  /\ last.at - SessionStart < TenMinutes
  /\ session.isOpen
  /\ session.wordsToReview = <<>>
  /\ \E i \in 1..Len(cache) : cache[i].reviewCount = 0 /\ cache[i].lastReviewed = last.at

\* the emitted words, written one after the other
RECURSIVE Spelled(_)
Spelled(segs) == IF segs = <<>> THEN <<>> ELSE Head(segs).word \o Spelled(Tail(segs))

-----------------------------------------------------------------------------
(* Properties of concurrent segmentation *)

\* the translations the segments pass for the word w
Passed(w, segs) == { segs[k].translation : k \in { j \in 1..Len(segs) : segs[j].word = w } }

\* another segmentText call is waiting for its AI answer
OtherInFlight(p) == \E o \in Procs \ {p} : calls[o].pc = "awaitAI"

\* C29: with two segmentText calls in flight and grades given in between, no store
\* update is lost: the addWord calls of a resolving call count on top of whatever
\* the store holds by then (usageCount grows by the number of calls for the word,
\* meanings keep what they had and gain every translation passed) and leave the
\* SRS fields as updateAfterReview wrote them; a grade leaves usageCount, meanings
\* and pinyin as addWord wrote them
C29_NoLostUpdate ==
  [][ /\ last'.op = "aiResolves" =>
           LET segs == EnsurePinyin(last'.answer) IN
             /\ \A w \in Keys(cache) :
                  LET old == Get(cache, w)
                      new == Get(cache', w)
                  IN /\ Has(cache', w)
                     /\ new.usageCount = old.usageCount + Occurrences(w, segs)
                     /\ Range(new.meanings) = Range(old.meanings) \cup Passed(w, segs)
                     /\ \A f \in SRSFields : new[f] = old[f]
             /\ \A w \in Keys(cache') \ Keys(cache) :
                  /\ Get(cache', w).usageCount = Occurrences(w, segs)
                  /\ Range(Get(cache', w).meanings) = Passed(w, segs)
      /\ IsReview /\ cache # Null =>
           /\ Keys(cache') = Keys(cache)
           /\ \A w \in Keys(cache) :
                /\ Get(cache', w).usageCount = Get(cache, w).usageCount
                /\ Get(cache', w).meanings = Get(cache, w).meanings
                /\ Get(cache', w).pinyin = Get(cache, w).pinyin ]_vars

\* while another call waited for its answer, a call resolved with a word that an
\* earlier answer had taught and a GOOD grade had scheduled since: the word has
\* both meanings, a count of 2 and the schedule of the grade
C29_Witness ==
  /\ last.op = "aiResolves"
  /\ OtherInFlight(last.proc)
  /\ Has(cache, <<"a", "b">>)
  /\ Get(cache, <<"a", "b">>).usageCount = 2
  /\ Len(Get(cache, <<"a", "b">>).meanings) = 2
  /\ Get(cache, <<"a", "b">>).reviewCount = 1
  /\ Get(cache, <<"a", "b">>).interval = Frac(1, 1)

====
